---- MODULE Spec2Model ----
(***************************************************************************)
(* One node of the tunnel overlay (TunnelCommunity) as a state machine.    *)
(* The node state is the record State; every handler of the source is an   *)
(* operator from a node state (and the handler's inputs) to the node state *)
(* it leaves behind, so that a handler calling another one is plain        *)
(* composition.  Random draws and the contents of received packets are     *)
(* inputs chosen by the actions.                                            *)
(***************************************************************************)
EXTENDS Integers, Sequences, FiniteSets, TLC

\* ------------------------------------------------------------------ bounds
\* circuit ids are 32-bit in the source; the model draws them from 0..MaxId
MaxId == 2
\* peers of the overlay; a peer's number is both its address and its key
MaxPeer == 3
\* greatest goal_hops of a circuit this node builds
MaxHops == 3
\* greatest number of circuits this node originates at a time
MaxCircuits == 2
\* wall clock (time.time()) runs over 0..MaxNow
MaxNow == 3
\* byte counters are followed up to MaxBytes
MaxBytes == 3
\* session key sets are told apart up to MaxKey
MaxKey == 2
MaxStats == 6

\* ---------------------------------------------------- scaled-down settings
max_relays_or_exits == 2
max_time == 2
max_time_inactive == 1
max_traffic == 2
max_packets_without_reply == 2
\* PING_INTERVAL and the 5 seconds PingRequestCache adds to it, scaled
PING_INTERVAL == 1
PingGrace == 1

\* --------------------------------------------------------------- constants
None == -1
MyKey == 0
NullAddr == 0
Ids == 0..MaxId
Peers == 1..MaxPeer
PubKeys == {MyKey} \cup Peers

ORIGINATOR == 0
EXIT_NODE == 1
CIRCUIT_ID_PORT == 1024

CIRCUIT_STATE_READY == "READY"
CIRCUIT_STATE_EXTENDING == "EXTENDING"
CIRCUIT_TYPE_DATA == "DATA"
CIRCUIT_TYPE_RP == "RP"
CIRCUIT_TYPE_RENDEZVOUS == "RENDEZVOUS"

\* every packet of the model has the same length
PacketLen == 1

\* ------------------------------------------------------------ partial maps
Put(f, k, v) == [x \in (DOMAIN f) \cup {k} |-> IF x = k THEN v ELSE f[x]]
Del(f, K) == [x \in (DOMAIN f) \ K |-> f[x]]
EmptyMap == [x \in {} |-> None]

Min(a, b) == IF a < b THEN a ELSE b

\* ------------------------------------------------------------------- state
VARIABLES
    circuits,            \* id -> Circuit (circuits this node originated)
    relay_from_to,       \* id -> RelayRoute
    exit_sockets,        \* id -> TunnelExitSocket
    directions,          \* id -> ORIGINATOR | EXIT_NODE
    relay_session_keys,  \* id -> session key set
    waiting_for,         \* ids for which create was sent and created is awaited
    request_cache,       \* the dispersy request cache, by prefix
    exit_candidates,     \* public key -> become_exit
    circuits_needed,     \* hop count -> wanted number of data circuits
    retry_tasks,         \* the retry lambdas registered with reactor.callLater
    become_exitnode,     \* settings.become_exitnode
    index,               \* selection_strategy.index, the position of RoundRobin
    stats,               \* self.stats: the six byte totals
    flushed,             \* history: per total, the counters of the entities that
                         \* left their table, as they were when they left
    now,                 \* time.time()
    last                 \* the last handler that ran: its input and its outcome

vars == <<circuits, relay_from_to, exit_sockets, directions, relay_session_keys,
          waiting_for, request_cache, exit_candidates, circuits_needed,
          retry_tasks, become_exitnode, index, stats, flushed, now, last>>

State ==
    [circuits |-> circuits, relay_from_to |-> relay_from_to,
     exit_sockets |-> exit_sockets, directions |-> directions,
     relay_session_keys |-> relay_session_keys, waiting_for |-> waiting_for,
     request_cache |-> request_cache, exit_candidates |-> exit_candidates,
     circuits_needed |-> circuits_needed, retry_tasks |-> retry_tasks,
     become_exitnode |-> become_exitnode, index |-> index,
     stats |-> stats, flushed |-> flushed,
     now |-> now,
     \* not part of the node: the messages the running handler has emitted
     sent |-> <<>>,
     \* not part of the node: FALSE once a handler was handed a random draw
     \* that the loop of _generate_circuit_id throws away
     drawn |-> TRUE]

\* the node after a handler has run, the statistics apart
CommitNode(s, ev) ==
    /\ circuits' = s.circuits
    /\ relay_from_to' = s.relay_from_to
    /\ exit_sockets' = s.exit_sockets
    /\ directions' = s.directions
    /\ relay_session_keys' = s.relay_session_keys
    /\ waiting_for' = s.waiting_for
    /\ request_cache' = s.request_cache
    /\ exit_candidates' = s.exit_candidates
    /\ circuits_needed' = s.circuits_needed
    /\ retry_tasks' = s.retry_tasks
    /\ become_exitnode' = s.become_exitnode
    /\ index' = s.index
    /\ now' = s.now
    /\ last' = ev

\* the statistics are followed under SpecStats only: everywhere else the
\* totals stay as they are at the start
Commit(s, ev) == CommitNode(s, ev) /\ UNCHANGED <<stats, flushed>>

CommitAll(s, ev) == CommitNode(s, ev) /\ stats' = s.stats /\ flushed' = s.flushed

\* ------------------------------------------------------------ records
\* routing.Circuit as create_circuit constructs it
Circuit(goal_hops, first_hop, ctype, required_endpoint, t) ==
    [goal_hops |-> goal_hops, hops |-> <<>>, unverified_hop |-> None,
     first_hop |-> first_hop, ctype |-> ctype,
     required_endpoint |-> required_endpoint, hs_session_keys |-> None,
     creation_time |-> t, last_incoming |-> t, bytes_up |-> 0, bytes_down |-> 0]

\* routing.Circuit.state: the state is read off the hop list
CircuitState(circuit) ==
    IF Len(circuit.hops) < circuit.goal_hops
    THEN CIRCUIT_STATE_EXTENDING ELSE CIRCUIT_STATE_READY

\* routing.RelayRoute as on_extend constructs it
RelayRoute(circuit_id, sock_addr, t) ==
    [circuit_id |-> circuit_id, sock_addr |-> sock_addr, rendezvous_relay |-> FALSE,
     creation_time |-> t, last_incoming |-> t, bytes_up |-> 0, bytes_down |-> 0]

\* TunnelExitSocket.__init__
TunnelExitSocket(sock_addr, t) ==
    [sock_addr |-> sock_addr, enabled |-> FALSE, ips |-> EmptyMap,
     bytes_up |-> 0, bytes_down |-> 0, creation_time |-> t]

\* ---------------------------------------------------------- statistics
StatsKeys == {"bytes_up", "bytes_down", "bytes_relay_up", "bytes_relay_down",
              "bytes_exit", "bytes_enter"}

\* self.stats is a defaultdict(int)
ZeroStats == [k \in StatsKeys |-> 0]

\* a variant of increase_bytes_sent: the bytes a relay route sends are added
\* to the total of the own circuits
increase_bytes_sent_one_total(s, class, circuit_id, num_bytes) ==
    IF class = "Circuit"
    THEN [s EXCEPT !.circuits[circuit_id].bytes_up = @ + num_bytes,
                   !.stats.bytes_up = @ + num_bytes]
    ELSE IF class = "RelayRoute"
    THEN [s EXCEPT !.relay_from_to[circuit_id].bytes_up = @ + num_bytes,
                   !.stats.bytes_up = @ + num_bytes]
    ELSE IF class = "TunnelExitSocket"
    THEN [s EXCEPT !.exit_sockets[circuit_id].bytes_up = @ + num_bytes,
                   !.stats.bytes_exit = @ + num_bytes]
    ELSE s

\* increase_bytes_sent(obj, num_bytes); obj is given by its class and by its
\* key in the table of that class, and an obj of another class counts nowhere
increase_bytes_sent(s, class, circuit_id, num_bytes) ==
    IF class = "Circuit"
    THEN [s EXCEPT !.circuits[circuit_id].bytes_up = @ + num_bytes,
                   !.stats.bytes_up = @ + num_bytes]
    ELSE IF class = "RelayRoute"
    THEN [s EXCEPT !.relay_from_to[circuit_id].bytes_up = @ + num_bytes,
                   !.stats.bytes_relay_up = @ + num_bytes]
    ELSE IF class = "TunnelExitSocket"
    THEN [s EXCEPT !.exit_sockets[circuit_id].bytes_up = @ + num_bytes,
                   !.stats.bytes_exit = @ + num_bytes]
    ELSE s

increase_bytes_received(s, class, circuit_id, num_bytes) ==
    IF class = "Circuit"
    THEN [s EXCEPT !.circuits[circuit_id].bytes_down = @ + num_bytes,
                   !.stats.bytes_down = @ + num_bytes]
    ELSE IF class = "RelayRoute"
    THEN [s EXCEPT !.relay_from_to[circuit_id].bytes_down = @ + num_bytes,
                   !.stats.bytes_relay_down = @ + num_bytes]
    ELSE IF class = "TunnelExitSocket"
    THEN [s EXCEPT !.exit_sockets[circuit_id].bytes_down = @ + num_bytes,
                   !.stats.bytes_enter = @ + num_bytes]
    ELSE s

\* the total that matches the bytes_up and the bytes_down of a class
UpKey(class) ==
    IF class = "Circuit" THEN "bytes_up"
    ELSE IF class = "RelayRoute" THEN "bytes_relay_up" ELSE "bytes_exit"
DownKey(class) ==
    IF class = "Circuit" THEN "bytes_down"
    ELSE IF class = "RelayRoute" THEN "bytes_relay_down" ELSE "bytes_enter"

\* the table of a class
Table(s, class) ==
    IF class = "Circuit" THEN s.circuits
    ELSE IF class = "RelayRoute" THEN s.relay_from_to ELSE s.exit_sockets

RECURSIVE Leave(_, _, _)
\* history: the objects of a class under the keys ids are about to leave
\* their table, by removal or because a new object takes their key
Leave(s, class, ids) ==
    IF ids \cap DOMAIN Table(s, class) = {} THEN s
    ELSE LET c == CHOOSE x \in ids \cap DOMAIN Table(s, class) : TRUE
         IN Leave([s EXCEPT !.flushed[UpKey(class)] = @ + Table(s, class)[c].bytes_up,
                            !.flushed[DownKey(class)] = @ + Table(s, class)[c].bytes_down],
                  class, ids \ {c})

\* a message handed to the endpoint
Msg(type, dst, circuit_id, arg, layers) ==
    [type |-> type, dst |-> dst, circuit_id |-> circuit_id, arg |-> arg,
     layers |-> layers]

\* ------------------------------------------------------------- crypto
\* A ciphertext is the plaintext under a stack of layers, outermost first.
\* A layer names the session key set and the direction whose key and salt
\* made it; decrypt_str succeeds exactly on a layer made with the same key.
Layer(key, direction) == [key |-> key, dir |-> direction]
encrypt_str(content, key, direction) == <<Layer(key, direction)>> \o content
CanDecrypt(content, key, direction) ==
    content # <<>> /\ Head(content) = Layer(key, direction)
\* what a crypto function gives: the content it returns, or the exception it
\* raises
Ok(content) == [ok |-> TRUE, content |-> content, err |-> ""]
CryptoException == [ok |-> FALSE, content |-> <<>>, err |-> "CryptoException"]
\* subscripting hs_session_keys while it is None
TypeError == [ok |-> FALSE, content |-> <<>>, err |-> "TypeError"]
decrypt_str(content, key, direction) ==
    IF CanDecrypt(content, key, direction) THEN Ok(Tail(content)) ELSE CryptoException

RECURSIVE EncryptHops_in_order(_, _, _)
\* a variant of EncryptHops: "for hop in circuit.hops", the layer of hops[1]
\* ends innermost
EncryptHops_in_order(hops, i, content) ==
    IF i = 0 THEN content
    ELSE encrypt_str(EncryptHops_in_order(hops, i - 1, content),
                     hops[i].session_keys, EXIT_NODE)

RECURSIVE EncryptHops(_, _, _)
\* "for hop in reversed(circuit.hops)": the layer of hops[1] ends outermost
EncryptHops(hops, i, content) ==
    IF i = 0 THEN content
    ELSE EncryptHops(hops, i - 1, encrypt_str(content, hops[i].session_keys, EXIT_NODE))

RECURSIVE DecryptHops(_, _, _)
\* "for hop in circuit.hops": peel the layer of hops[1] first
DecryptHops(hops, i, res) ==
    IF i > Len(hops) \/ ~res.ok THEN res
    ELSE DecryptHops(hops, i + 1, decrypt_str(res.content, hops[i].session_keys, ORIGINATOR))

IsHsType(ctype) == ctype \in {CIRCUIT_TYPE_RENDEZVOUS, CIRCUIT_TYPE_RP}

crypto_out(cs, rsk, circuit_id, content, is_data) ==
    IF circuit_id \in DOMAIN cs
    THEN LET circuit == cs[circuit_id]
             direction == IF circuit.ctype = CIRCUIT_TYPE_RP THEN 1 ELSE 0
             inner == IF is_data /\ IsHsType(circuit.ctype)
                      THEN encrypt_str(content, circuit.hs_session_keys, direction)
                      ELSE content
         IN IF is_data /\ IsHsType(circuit.ctype) /\ circuit.hs_session_keys = None
            THEN TypeError
            ELSE Ok(EncryptHops(circuit.hops, Len(circuit.hops), inner))
    ELSE IF circuit_id \in DOMAIN rsk
    THEN Ok(encrypt_str(content, rsk[circuit_id], ORIGINATOR))
    ELSE CryptoException

crypto_in(cs, rsk, circuit_id, content, is_data) ==
    IF circuit_id \in DOMAIN cs /\ Len(cs[circuit_id].hops) > 0
    THEN LET circuit == cs[circuit_id]
             peeled == DecryptHops(circuit.hops, 1, Ok(content))
             direction == IF circuit.ctype # CIRCUIT_TYPE_RP THEN 1 ELSE 0
         IN IF peeled.ok /\ is_data /\ IsHsType(circuit.ctype)
            THEN IF circuit.hs_session_keys = None THEN TypeError
                 ELSE decrypt_str(peeled.content, circuit.hs_session_keys, direction)
            ELSE peeled
    ELSE IF circuit_id \in DOMAIN rsk
    THEN decrypt_str(content, rsk[circuit_id], EXIT_NODE)
    ELSE CryptoException

\* directions[circuit_id] and relay_session_keys[circuit_id] are read with
\* [], so the caller makes sure both exist (see RelayRaises)
crypto_relay(dirs, rsk, circuit_id, content) ==
    IF dirs[circuit_id] = ORIGINATOR
    THEN Ok(encrypt_str(content, rsk[circuit_id], ORIGINATOR))
    ELSE IF dirs[circuit_id] = EXIT_NODE
    THEN decrypt_str(content, rsk[circuit_id], EXIT_NODE)
    ELSE CryptoException

\* ------------------------------------------------------- request cache
\* dispersy's RequestCache, one map per prefix: u"anon-circuit" and
\* u"anon-created" are keyed by circuit id, u"ping" by a random identifier.
EmptyCache == [anon_circuit |-> EmptyMap, anon_created |-> EmptyMap, ping |-> EmptyMap]

\* CircuitRequestCache: goal_hops, ctype, retry_left and retry_endpoint are
\* the arguments the retry lambda captured, retry_left -1 standing for "no
\* retry lambda"; broken says that the Circuit object the entry holds has
\* been destroyed
CircuitRequestCache(goal_hops, ctype, retry_left, retry_endpoint) ==
    [goal_hops |-> goal_hops, ctype |-> ctype, retry_left |-> retry_left,
     retry_endpoint |-> retry_endpoint, broken |-> FALSE]

\* CreatedRequestCache
CreatedRequestCache(candidate, candidates) ==
    [candidate |-> candidate, candidates |-> candidates]

\* PingRequestCache: the entry holds the Circuit object, which here is the id
\* of the circuit while the object is in circuits (gone = FALSE) and the
\* last_incoming the object was left with once it has been removed; due is
\* the time of the timeout, timeout_delay after the entry was added
PingRequestCache(s, circuit_id) ==
    [circuit_id |-> circuit_id, due |-> s.now + PING_INTERVAL + PingGrace,
     gone |-> FALSE, last_incoming |-> None]

\* the ping entries once the Circuit object under circuit_id has left circuits
PingsOfGone(s, circuit_id) ==
    [n \in DOMAIN s.request_cache.ping |->
        LET cache == s.request_cache.ping[n]
        IN IF cache.circuit_id = circuit_id /\ ~cache.gone
           THEN [cache EXCEPT !.gone = TRUE,
                              !.last_incoming = s.circuits[circuit_id].last_incoming]
           ELSE cache]

\* RequestCache.add: an identifier that is already there is not replaced
CacheAdd(s, prefix, number, cache) ==
    IF number \in DOMAIN s.request_cache[prefix] THEN s
    ELSE [s EXCEPT !.request_cache[prefix] = Put(@, number, cache)]

CacheHas(s, prefix, number) == number \in DOMAIN s.request_cache[prefix]

CachePop(s, prefix, number) == [s EXCEPT !.request_cache[prefix] = Del(@, {number})]

\* ---------------------------------------------------------- sending
Send(s, m) == [s EXCEPT !.sent = Append(@, m)]

\* send_cell: every cell but create and created is encrypted by crypto_out,
\* and is not sent when that raises CryptoException
CellLayers(s, message_type, circuit_id) ==
    IF message_type \in {"create", "created"} THEN Ok(<<>>)
    ELSE crypto_out(s.circuits, s.relay_session_keys, circuit_id, <<>>, FALSE)

send_cell(s, dst, message_type, circuit_id, arg) ==
    LET enc == CellLayers(s, message_type, circuit_id)
    IN IF enc.ok THEN Send(s, Msg(message_type, dst, circuit_id, arg, enc.content))
       ELSE s

\* the length send_cell returns: 0 when the cell was not sent
SentLen(s, message_type, circuit_id) ==
    IF CellLayers(s, message_type, circuit_id).ok THEN PacketLen ELSE 0

send_destroy(s, dst, circuit_id) == Send(s, Msg("destroy", dst, circuit_id, None, <<>>))

\* ------------------------------------------------------------ removal
destroy_circuit(s, circuit_id) ==
    IF circuit_id \in DOMAIN s.circuits
    THEN send_destroy(s, s.circuits[circuit_id].first_hop, circuit_id)
    ELSE s

remove_circuit(s, circuit_id, destroy) ==
    IF circuit_id \in DOMAIN s.circuits
    THEN LET s1 == IF destroy THEN destroy_circuit(s, circuit_id) ELSE s
             \* circuit.destroy(): a request cache that holds this object sees it broken
             rc == s1.request_cache.anon_circuit
             rc1 == IF circuit_id \in DOMAIN rc
                    THEN [rc EXCEPT ![circuit_id].broken = TRUE] ELSE rc
         IN [Leave(s1, "Circuit", {circuit_id})
                EXCEPT !.circuits = Del(@, {circuit_id}),
                       !.request_cache.anon_circuit = rc1,
                       !.request_cache.ping = PingsOfGone(s1, circuit_id)]
    ELSE s

destroy_exit_socket(s, circuit_id) ==
    IF circuit_id \in DOMAIN s.exit_sockets
    THEN send_destroy(s, s.exit_sockets[circuit_id].sock_addr, circuit_id)
    ELSE s

\* a variant of remove_exit_socket: the session key is dropped by the call that
\* finds no socket
remove_exit_socket_late_cleanup(s, circuit_id, destroy) ==
    IF circuit_id \in DOMAIN s.exit_sockets
    THEN LET s1 == IF destroy THEN destroy_exit_socket(s, circuit_id) ELSE s
             exit_socket == s1.exit_sockets[circuit_id]
         IN [Leave(s1, "TunnelExitSocket", {circuit_id})
                EXCEPT !.exit_sockets = Del(@, {circuit_id}),
                       !.relay_session_keys =
                           IF exit_socket.enabled THEN Del(@, {circuit_id}) ELSE @]
    ELSE [s EXCEPT !.relay_session_keys = Del(@, {circuit_id})]

remove_exit_socket(s, circuit_id, destroy) ==
    IF circuit_id \in DOMAIN s.exit_sockets
    THEN LET s1 == IF destroy THEN destroy_exit_socket(s, circuit_id) ELSE s
             exit_socket == s1.exit_sockets[circuit_id]
         IN [Leave(s1, "TunnelExitSocket", {circuit_id})
                EXCEPT !.exit_sockets = Del(@, {circuit_id}),
                       \* the session key goes only with an enabled socket
                       !.relay_session_keys =
                           IF exit_socket.enabled THEN Del(@, {circuit_id}) ELSE @]
    ELSE s

\* destroy_relay's dict "relays": cid_from -> (circuit_id, sock_addr)
RelayTarget(s, cid_from) ==
    <<s.relay_from_to[cid_from].circuit_id, s.relay_from_to[cid_from].sock_addr>>

RelayTargets(s, circuit_ids) ==
    {RelayTarget(s, cid) : cid \in circuit_ids \cap DOMAIN s.relay_from_to}

RECURSIVE SendDestroys(_, _, _, _)
\* "for cid_from, (cid_to, sock_addr) in relays.iteritems()"; s0 is the state
\* the dict was built from
SendDestroys(s0, s, cids, got_destroy_from) ==
    IF cids = {} THEN s
    ELSE LET cid == CHOOSE x \in cids : TRUE
             t == RelayTarget(s0, cid)
             s1 == IF t # got_destroy_from THEN send_destroy(s, t[2], t[1]) ELSE s
         IN SendDestroys(s0, s1, cids \ {cid}, got_destroy_from)

\* got_destroy_from is <<>> for None, else <<circuit_id, sock_addr>>
DestroyAllowed(s, circuit_ids, got_destroy_from) ==
    got_destroy_from = <<>> \/ got_destroy_from \in RelayTargets(s, circuit_ids)

\* a variant of destroy_relay: the destroy also goes back where it came from
destroy_relay_echo(s, circuit_ids, got_destroy_from) ==
    IF ~DestroyAllowed(s, circuit_ids, got_destroy_from) THEN s
    ELSE SendDestroys(s, s, circuit_ids \cap DOMAIN s.relay_from_to, <<>>)

destroy_relay(s, circuit_ids, got_destroy_from) ==
    IF ~DestroyAllowed(s, circuit_ids, got_destroy_from) THEN s
    ELSE SendDestroys(s, s, circuit_ids \cap DOMAIN s.relay_from_to, got_destroy_from)

\* the ids remove_relay deletes: the id itself and, with both_sides, every
\* entry that points at it
ToRemove(s, circuit_id, both_sides) ==
    {circuit_id} \cup
    IF both_sides
    THEN {k \in DOMAIN s.relay_from_to : s.relay_from_to[k].circuit_id = circuit_id}
    ELSE {}

remove_relay(s, circuit_id, destroy, got_destroy_from, both_sides) ==
    LET to_remove == ToRemove(s, circuit_id, both_sides)
        s1 == IF destroy THEN destroy_relay(s, to_remove, got_destroy_from) ELSE s
        gone == to_remove \cap DOMAIN s1.relay_from_to
    IN [Leave(s1, "RelayRoute", gone)
           EXCEPT !.relay_from_to = Del(@, gone),
                  !.relay_session_keys = Del(@, gone)]

\* ------------------------------------------------------ id allocation
\* The keys of relay_from_to are bare circuit ids, so the membership test
\* "(neighbour, circuit_id) in self.relay_from_to" compares a pair with them.
PairInRelay(s, neighbour, circuit_id) ==
    \E k \in DOMAIN s.relay_from_to : <<k>> = <<neighbour, circuit_id>>

\* the condition of the while loop of _generate_circuit_id
IdCollides(s, neighbour, circuit_id) ==
    \/ circuit_id \in DOMAIN s.circuits
    \/ (neighbour # None /\ PairInRelay(s, neighbour, circuit_id))

\* the values _generate_circuit_id can return: the draws the loop lets through
_generate_circuit_id(s, neighbour) ==
    {circuit_id \in Ids : ~IdCollides(s, neighbour, circuit_id)}

\* ------------------------------------------------------ circuit building
is_key_compatible(public_key) == public_key \in PubKeys

RECURSIVE FirstWith(_, _, _)
\* the first element of sequence seq, from index i on, that is in set ok
FirstWith(seq, i, ok) ==
    IF i > Len(seq) THEN None
    ELSE IF seq[i] \in ok THEN seq[i] ELSE FirstWith(seq, i + 1, ok)

\* create_circuit, the loop that fills in a missing required_endpoint; cands
\* is dispersy_yield_verified_candidates(), connectable the candidates whose
\* connection_type is public
SelectEndpoint(s, ctype, required_endpoint, cands, connectable) ==
    IF required_endpoint # None THEN required_endpoint
    ELSE IF ctype = CIRCUIT_TYPE_DATA
    THEN FirstWith(cands, 1, {p \in DOMAIN s.exit_candidates : s.exit_candidates[p]})
    ELSE LET c == FirstWith(cands, 1, connectable)
         IN IF c # None THEN c
            ELSE IF cands # <<>> THEN cands[Len(cands)] ELSE None

\* create_circuit, the choice of the first hop
SelectFirstHop(s, goal_hops, endpoint, cands) ==
    IF goal_hops = 1 /\ endpoint # None THEN endpoint
    ELSE LET hops == {s.circuits[c].first_hop : c \in DOMAIN s.circuits}
         IN FirstWith(cands, 1,
                {p \in Peers : p \notin hops /\ is_key_compatible(p) /\ p # endpoint})

\* a variant of RetryLambda: the retry is handed the same number of retries
RetryLambda_same(goal_hops, ctype, max_retries, required_endpoint) ==
    [h |-> goal_hops, t |-> ctype, r |-> max_retries, e |-> required_endpoint]

\* the retry lambda create_circuit builds: its captured arguments
RetryLambda(goal_hops, ctype, max_retries, required_endpoint) ==
    [h |-> goal_hops, t |-> ctype, r |-> max_retries - 1, e |-> required_endpoint]

\* _generate_circuit_id with the draw rnd: a draw the loop rejects is not a
\* return value, and the state is marked as not an outcome
Drawn(s, neighbour, rnd) ==
    IF rnd \in _generate_circuit_id(s, neighbour) THEN s ELSE [s EXCEPT !.drawn = FALSE]

\* create_circuit; rnd is the value _generate_circuit_id returns
create_circuit(s, goal_hops, ctype, max_retries, required_endpoint, cands, connectable, rnd) ==
    LET endpoint == SelectEndpoint(s, ctype, required_endpoint, cands, connectable)
        first_hop == SelectFirstHop(s, goal_hops, endpoint, cands)
        retry == RetryLambda(goal_hops, ctype, max_retries, required_endpoint)
    IN IF endpoint = None \/ first_hop = None
       THEN IF max_retries > 0
            THEN [s EXCEPT !.retry_tasks = Append(@, retry)]
            ELSE s
       ELSE LET circuit_id == rnd
                s0 == Drawn(s, first_hop, rnd)
                circuit == [Circuit(goal_hops, first_hop, ctype, endpoint, s.now)
                               EXCEPT !.unverified_hop = first_hop]
                s1 == CacheAdd(s0, "anon_circuit", circuit_id,
                         CircuitRequestCache(goal_hops, ctype,
                             IF max_retries > 0 THEN max_retries - 1 ELSE -1,
                             required_endpoint))
                s2 == [Leave(s1, "Circuit", {circuit_id})
                          EXCEPT !.circuits = Put(@, circuit_id, circuit),
                                 !.waiting_for = @ \cup {circuit_id}]
                s3 == send_cell(s2, first_hop, "create", circuit_id, first_hop)
            IN increase_bytes_sent(s3, "Circuit", circuit_id,
                                   SentLen(s2, "create", circuit_id))

\* what create_circuit returns: False where it gives up, else the circuit id
CreateFails(s, goal_hops, ctype, required_endpoint, cands, connectable) ==
    LET endpoint == SelectEndpoint(s, ctype, required_endpoint, cands, connectable)
    IN endpoint = None \/ SelectFirstHop(s, goal_hops, endpoint, cands) = None

\* -------------------------------------------------------------- relaying
\* a variant of is_relay: circuit id 0 is relayed like any other
is_relay_any_id(s, circuit_id) ==
    /\ circuit_id \in DOMAIN s.relay_from_to
    /\ circuit_id \notin s.waiting_for

is_relay(s, circuit_id) ==
    /\ circuit_id > 0
    /\ circuit_id \in DOMAIN s.relay_from_to
    /\ circuit_id \notin s.waiting_for

\* relay_packet up to the crypto step: the entry that points back at
\* circuit_id has its last_incoming and received bytes updated
RelayBeat(s, circuit_id) ==
    LET this == s.relay_from_to[circuit_id].circuit_id
    IN IF this \in DOMAIN s.relay_from_to
       THEN increase_bytes_received(
                [s EXCEPT !.relay_from_to[this].last_incoming = s.now],
                "RelayRoute", this, PacketLen)
       ELSE s

\* crypto_relay reads directions[circuit_id] and relay_session_keys[circuit_id]
\* with []: a missing entry raises KeyError, which relay_packet does not catch
RelayRaises(s, circuit_id) ==
    LET next_relay == s.relay_from_to[circuit_id]
    IN IF next_relay.rendezvous_relay THEN FALSE
       ELSE \/ circuit_id \notin DOMAIN s.directions
            \/ circuit_id \notin DOMAIN s.relay_session_keys

\* the crypto step of relay_packet
RelayCrypto(s, circuit_id, layers) ==
    LET next_relay == s.relay_from_to[circuit_id]
    IN IF next_relay.rendezvous_relay
       THEN LET decrypted == crypto_in(s.circuits, s.relay_session_keys, circuit_id,
                                       layers, FALSE)
            IN IF decrypted.ok
               THEN crypto_out(s.circuits, s.relay_session_keys, next_relay.circuit_id,
                               decrypted.content, FALSE)
               ELSE CryptoException
       ELSE crypto_relay(s.directions, s.relay_session_keys, circuit_id, layers)

\* relay_packet: res is "relayed" (True), "local" (False) or "raised"
relay_packet(s, circuit_id, message_type, layers, arg) ==
    IF ~is_relay(s, circuit_id) THEN [s |-> s, res |-> "local"]
    ELSE LET next_relay == s.relay_from_to[circuit_id]
             s1 == RelayBeat(s, circuit_id)
         IN IF RelayRaises(s1, circuit_id) THEN [s |-> s1, res |-> "raised"]
            ELSE LET enc == RelayCrypto(s1, circuit_id, layers)
                 IN IF ~enc.ok THEN [s |-> s1, res |-> "local"]
                    ELSE LET s2 == Send(s1, Msg(message_type, next_relay.sock_addr,
                                                next_relay.circuit_id, arg, enc.content))
                         IN [s |-> increase_bytes_sent(s2, "RelayRoute", circuit_id,
                                                       PacketLen),
                             res |-> "relayed"]

\* ------------------------------------------------------- cell handlers
\* A received cell m: type, src (the sender's address), circuit_id, layers
\* (the encrypted part), and the payload fields the handlers read: key (the
\* DH part, which names the session key set derived from it),
\* node_public_key, node_addr, signer (the key that made AUTH),
\* candidate_list, cl_ok (the candidate list decrypts) and identifier.
\* env is what the overlay answers: cands (the verified candidates, in the
\* order they are yielded) and connectable.

check_create(s, m) == m.node_public_key = MyKey

\* a variant of TooManyRelays: the comparison off by one
TooManyRelays_strict(s) ==
    max_relays_or_exits <
        Cardinality(DOMAIN s.relay_from_to) + Cardinality(DOMAIN s.exit_sockets)

TooManyRelays(s) ==
    max_relays_or_exits <=
        Cardinality(DOMAIN s.relay_from_to) + Cardinality(DOMAIN s.exit_sockets)

RECURSIVE RelayCandidates(_, _, _, _)
\* on_create: the first four verified candidates that are no exit nodes
RelayCandidates(s, cands, i, acc) ==
    IF i > Len(cands) \/ Cardinality(acc) >= 4 THEN acc
    ELSE RelayCandidates(s, cands, i + 1,
            IF s.exit_candidates[cands[i]] THEN acc ELSE acc \cup {cands[i]})

on_create(s, m, env) ==
    LET circuit_id == m.circuit_id
    IN IF TooManyRelays(s) THEN s
       ELSE IF CacheHas(s, "anon_created", circuit_id) THEN s
       ELSE LET candidates == RelayCandidates(s, env.cands, 1, {})
                s1 == [s EXCEPT !.directions = Put(@, circuit_id, EXIT_NODE),
                                !.relay_session_keys = Put(@, circuit_id, m.key)]
                s2 == CacheAdd(s1, "anon_created", circuit_id,
                               CreatedRequestCache(m.src, candidates))
                s3 == [Leave(s2, "TunnelExitSocket", {circuit_id})
                          EXCEPT !.exit_sockets =
                                    Put(@, circuit_id, TunnelExitSocket(m.src, s.now))]
            IN send_cell(s3, m.src, "created", circuit_id, None)

check_extend(s, m) ==
    is_relay(s, m.circuit_id) \/ CacheHas(s, "anon_created", m.circuit_id)

\* on_extend up to the allocation of the new id: the request is popped and
\* an earlier relay attempt for circuit_id is forgotten.  raised says that
\* the handler ended there with an exception.
ExtendCandidate(request, m) ==
    IF m.node_public_key \in request.candidates THEN m.node_public_key ELSE m.node_addr

ExtendPrepare(s, m) ==
    LET circuit_id == m.circuit_id
    IN IF ~CacheHas(s, "anon_created", circuit_id)
       THEN [s |-> s, raised |-> TRUE]         \* request_cache.pop: KeyError
       ELSE LET request == s.request_cache.anon_created[circuit_id]
                s1 == CachePop(s, "anon_created", circuit_id)
            IN IF ExtendCandidate(request, m) = None
               THEN [s |-> s1, raised |-> TRUE]    \* Candidate(None, False)
               ELSE IF circuit_id \notin DOMAIN s1.relay_from_to
               THEN [s |-> s1, raised |-> FALSE]
               ELSE LET other == s1.relay_from_to[circuit_id].circuit_id
                        s2 == [Leave(s1, "RelayRoute", {circuit_id})
                                  EXCEPT !.relay_from_to = Del(@, {circuit_id})]
                    IN IF other \notin DOMAIN s2.relay_from_to
                       THEN [s |-> s2, raised |-> TRUE]    \* del: KeyError
                       ELSE [s |-> [Leave(s2, "RelayRoute", {other})
                                       EXCEPT !.relay_from_to = Del(@, {other})],
                             raised |-> FALSE]

on_extend(s, m, rnd) ==
    IF m.node_public_key = None THEN s
    ELSE LET circuit_id == m.circuit_id
             prep == ExtendPrepare(s, m)
         IN IF prep.raised THEN prep.s
            ELSE LET extend_candidate ==
                         ExtendCandidate(s.request_cache.anon_created[circuit_id], m)
                     new_circuit_id == rnd
                     s3 == Drawn(prep.s, extend_candidate, rnd)
                     rel1 == Put(s3.relay_from_to, new_circuit_id,
                                 RelayRoute(circuit_id, m.src, s.now))
                     rel2 == Put(rel1, circuit_id,
                                 RelayRoute(new_circuit_id, extend_candidate, s.now))
                     s4 == [Leave(s3, "RelayRoute", {new_circuit_id, circuit_id})
                               EXCEPT !.waiting_for = @ \cup {new_circuit_id},
                                      !.relay_from_to = rel2]
                 IN IF circuit_id \notin DOMAIN s4.relay_session_keys
                    THEN s4                     \* relay_session_keys[circuit_id]: KeyError
                    ELSE LET s5 == [s4 EXCEPT
                                      !.relay_session_keys =
                                          Put(@, new_circuit_id, @[circuit_id]),
                                      !.directions =
                                          Put(Put(@, new_circuit_id, ORIGINATOR),
                                              circuit_id, EXIT_NODE)]
                             s6 == remove_exit_socket(s5, circuit_id, FALSE)
                         \* increase_bytes_sent is handed the id, not an object
                         IN increase_bytes_sent(
                                send_cell(s6, extend_candidate, "create", new_circuit_id,
                                          m.node_public_key),
                                "int", new_circuit_id, PacketLen)

\* list.remove(x): the first occurrence only
RECURSIVE RemoveFirst(_, _)
RemoveFirst(seq, x) ==
    IF seq = <<>> THEN <<>>
    ELSE IF Head(seq) = x THEN Tail(seq)
    ELSE <<Head(seq)>> \o RemoveFirst(Tail(seq), x)

InSeq(seq, x) == \E i \in 1..Len(seq) : seq[i] = x

RECURSIVE RemoveIgnored(_, _)
\* "for ignore_candidate in ignore_candidates: if ... in candidate_list: remove"
RemoveIgnored(candidate_list, ignore_candidates) ==
    IF ignore_candidates = <<>> THEN candidate_list
    ELSE RemoveIgnored(
            IF InSeq(candidate_list, Head(ignore_candidates))
            THEN RemoveFirst(candidate_list, Head(ignore_candidates))
            ELSE candidate_list,
            Tail(ignore_candidates))

HopKeys(hops) == [i \in 1..Len(hops) |-> hops[i].public_key]

\* the ignore list of _ours_on_created_extended
IgnoreCandidates(circuit) ==
    HopKeys(circuit.hops) \o <<MyKey>> \o
    (IF circuit.required_endpoint # None THEN <<circuit.required_endpoint>> ELSE <<>>)

\* the candidate list after both filters
FilteredCandidates(circuit, candidate_list) ==
    SelectSeq(RemoveIgnored(candidate_list, IgnoreCandidates(circuit)), is_key_compatible)

\* a variant of BecomeExit: true one hop earlier
BecomeExit_early(circuit) == circuit.goal_hops - 2 = Len(circuit.hops)

\* "become_exit = circuit.goal_hops - 1 == len(circuit.hops)"
BecomeExit(circuit) == circuit.goal_hops - 1 = Len(circuit.hops)

\* the verification of the handshake reply against the pending hop
VerifyShared(circuit, m) == m.signer = circuit.unverified_hop

\* add_hop without the reset of unverified_hop that follows it
AddHop_keeps_unverified(circuit, m) ==
    [circuit EXCEPT !.hops = Append(@, [public_key |-> circuit.unverified_hop,
                                        session_keys |-> m.key])]

\* a variant of AddHop: the hop is appended twice
AddHop_twice(circuit, m) ==
    [circuit EXCEPT !.hops = @ \o <<[public_key |-> circuit.unverified_hop,
                                     session_keys |-> m.key],
                                    [public_key |-> circuit.unverified_hop,
                                     session_keys |-> m.key]>>,
                    !.unverified_hop = None]

\* circuit.add_hop(hop); circuit.unverified_hop = None
AddHop(circuit, m) ==
    [circuit EXCEPT !.hops = Append(@, [public_key |-> circuit.unverified_hop,
                                        session_keys |-> m.key]),
                    !.unverified_hop = None]

_ours_on_created_extended(s, circuit_id, m) ==
    LET circuit0 == s.circuits[circuit_id]
    IN IF circuit0.unverified_hop = None THEN s       \* hop.dh_secret: AttributeError
       ELSE IF ~VerifyShared(circuit0, m) THEN remove_circuit(s, circuit_id, FALSE)
       ELSE LET circuit == AddHop(circuit0, m)
                s1 == [s EXCEPT !.circuits[circuit_id] = circuit]
            IN IF CircuitState(circuit) = CIRCUIT_STATE_EXTENDING
               THEN IF BecomeExit(circuit) /\ circuit.required_endpoint # None
                    THEN LET pub_key == circuit.required_endpoint
                             s2 == [s1 EXCEPT !.circuits[circuit_id].unverified_hop = pub_key]
                             s3 == send_cell(s2, circuit.first_hop, "extend", circuit_id, pub_key)
                         IN increase_bytes_sent(s3, "Circuit", circuit_id,
                                                SentLen(s2, "extend", circuit_id))
                    ELSE IF ~m.cl_ok THEN s1          \* decrypt_str raises, not caught here
                    ELSE LET candidate_list == FilteredCandidates(circuit, m.candidate_list)
                         IN IF candidate_list # <<>>
                            THEN LET pub_key == Head(candidate_list)
                                     s2 == [s1 EXCEPT
                                              !.circuits[circuit_id].unverified_hop = pub_key]
                                     s3 == send_cell(s2, circuit.first_hop, "extend",
                                                     circuit_id, pub_key)
                                 IN increase_bytes_sent(s3, "Circuit", circuit_id,
                                                        SentLen(s2, "extend", circuit_id))
                            ELSE remove_circuit(s1, circuit_id, FALSE)
               ELSE \* READY: request_cache.pop raises KeyError on a missing entry
                    IF CacheHas(s1, "anon_circuit", circuit_id)
                    THEN CachePop(s1, "anon_circuit", circuit_id)
                    ELSE s1

\* a variant of check_created: the test check_extended makes
check_created_as_extended(s, m) ==
    is_relay(s, m.circuit_id) \/ CacheHas(s, "anon_circuit", m.circuit_id)

check_created(s, m) ==
    ~(~is_relay(s, m.circuit_id) /\ m.circuit_id \in DOMAIN s.circuits)
    \/ CacheHas(s, "anon_circuit", m.circuit_id)

on_created(s, m) ==
    LET circuit_id == m.circuit_id
    IN IF circuit_id \notin s.waiting_for THEN s
       ELSE LET s1 == [s EXCEPT !.waiting_for = @ \ {circuit_id},
                                !.directions = Put(@, circuit_id, ORIGINATOR)]
                s2 == IF circuit_id \in DOMAIN s1.relay_from_to
                      THEN LET forwarding_relay == s1.relay_from_to[circuit_id]
                           IN send_cell(s1, forwarding_relay.sock_addr, "extended",
                                        forwarding_relay.circuit_id, None)
                      ELSE s1
            IN IF circuit_id \in DOMAIN s2.circuits
               THEN _ours_on_created_extended(s2, circuit_id, m)
               ELSE s2

check_extended(s, m) ==
    is_relay(s, m.circuit_id) \/ CacheHas(s, "anon_circuit", m.circuit_id)

on_extended(s, m) ==
    IF m.circuit_id \notin DOMAIN s.circuits THEN s       \* self.circuits[...]: KeyError
    ELSE _ours_on_created_extended(s, m.circuit_id, m)

on_ping(s, m) ==
    IF DOMAIN s.exit_sockets # {}
    THEN send_cell(s, m.src, "pong", m.circuit_id, m.identifier)
    ELSE s

check_pong(s, m) == is_relay(s, m.circuit_id) \/ CacheHas(s, "ping", m.identifier)

on_pong(s, m) ==
    IF CacheHas(s, "ping", m.identifier) THEN CachePop(s, "ping", m.identifier)
    ELSE s                                            \* pop: KeyError

\* dispersy.on_incoming_packets for a cell taken out of its envelope: the
\* check of the message type, then its handler
Dispatch(s, m, env, rnd) ==
    CASE m.type = "create" -> IF check_create(s, m) THEN on_create(s, m, env) ELSE s
      [] m.type = "created" -> IF check_created(s, m) THEN on_created(s, m) ELSE s
      [] m.type = "extend" -> IF check_extend(s, m) THEN on_extend(s, m, rnd) ELSE s
      [] m.type = "extended" -> IF check_extended(s, m) THEN on_extended(s, m) ELSE s
      [] m.type = "ping" -> on_ping(s, m)
      [] m.type = "pong" -> IF check_pong(s, m) THEN on_pong(s, m) ELSE s
      [] OTHER -> s

\* circuit.beat_heart() and increase_bytes_received(circuit, ...)
BeatHeart(s, circuit_id) ==
    increase_bytes_received([s EXCEPT !.circuits[circuit_id].last_incoming = s.now],
                            "Circuit", circuit_id, PacketLen)

\* the decryption on_cell does before it hands the cell on
CellIn(s, m) ==
    IF m.type \in {"create", "created"} THEN Ok(m.layers)
    ELSE crypto_in(s.circuits, s.relay_session_keys, m.circuit_id, m.layers, FALSE)

\* "if circuit_id in self.circuits: beat_heart ..." at the end of on_cell
BeatIfOurs(s, circuit_id) ==
    IF circuit_id \in DOMAIN s.circuits THEN BeatHeart(s, circuit_id) ELSE s

\* on_cell for a cell that relay_cell did not take
on_cell_local(s, m, env, rnd) ==
    LET dec == CellIn(s, m)
    IN IF ~dec.ok THEN [s |-> s, res |-> "dropped"]
       ELSE [s |-> BeatIfOurs(IF dec.content = <<>>   \* else the payload does not decode
                              THEN Dispatch(s, m, env, rnd) ELSE s,
                              m.circuit_id),
             res |-> "local"]

\* the outcome of relay_packet, or of what follows it when it returns False
AfterRelay(r, local) == IF r.res # "local" THEN r ELSE local

\* on_cell for one message; route tells what became of the cell
on_cell_route(s, m, env, rnd) ==
    AfterRelay(relay_packet(s, m.circuit_id, m.type, m.layers, None),
               on_cell_local(relay_packet(s, m.circuit_id, m.type, m.layers, None).s,
                             m, env, rnd))

on_cell(s, m, env, rnd) == on_cell_route(s, m, env, rnd).s

\* --------------------------------------------------------------- destroy
on_destroy(s, circuit_id, cand_sock_addr) ==
    IF circuit_id \in DOMAIN s.relay_from_to
    THEN remove_relay(s, circuit_id, TRUE, <<circuit_id, cand_sock_addr>>, TRUE)
    ELSE IF circuit_id \in DOMAIN s.exit_sockets
    THEN IF cand_sock_addr # s.exit_sockets[circuit_id].sock_addr THEN s
         ELSE remove_exit_socket(s, circuit_id, FALSE)
    ELSE IF circuit_id \in DOMAIN s.circuits
    THEN IF cand_sock_addr # s.circuits[circuit_id].first_hop THEN s
         ELSE remove_circuit(s, circuit_id, FALSE)
    ELSE s

\* ------------------------------------------------------------ exit socket
\* self.ips is a defaultdict(int)
Ips(exit_socket, ip) == IF ip \in DOMAIN exit_socket.ips THEN exit_socket.ips[ip] ELSE 0

\* a variant of PacketLimit: outbound packets get the threshold of inbound ones
PacketLimit_one_more(incoming) == max_packets_without_reply + 1

\* the threshold of check_num_packets
PacketLimit(incoming) ==
    IF incoming THEN max_packets_without_reply + 1 ELSE max_packets_without_reply

\* what check_num_packets returns
CheckPasses(s, circuit_id, ip, incoming) ==
    LET n == Ips(s.exit_sockets[circuit_id], ip)
    IN n < 0 \/ n < PacketLimit(incoming)

\* a variant of check_num_packets: an address that has answered is counted
\* like any other
check_num_packets_counts_answered(s, circuit_id, ip, incoming) ==
    LET n == Ips(s.exit_sockets[circuit_id], ip)
    IN IF n >= PacketLimit(incoming) THEN remove_exit_socket(s, circuit_id, TRUE)
       ELSE [s EXCEPT !.exit_sockets[circuit_id].ips =
                          Put(@, ip, IF incoming THEN -1 ELSE n + 1)]

\* check_num_packets, the state it leaves
check_num_packets(s, circuit_id, ip, incoming) ==
    LET n == Ips(s.exit_sockets[circuit_id], ip)
    IN IF n < 0 THEN s
       ELSE IF n >= PacketLimit(incoming) THEN remove_exit_socket(s, circuit_id, TRUE)
       ELSE [s EXCEPT !.exit_sockets[circuit_id].ips =
                          Put(@, ip, IF incoming THEN -1 ELSE n + 1)]

\* TunnelConversion.is_allowed and could_be_dispersy read the payload, whose
\* kind is "dispersy", "allowed" or "forbidden"
is_allowed(data) == data # "forbidden"
could_be_dispersy(data) == data = "dispersy"

\* TunnelExitSocket.sendto; the socket object outlives its removal from
\* exit_sockets, so the datagram goes out whenever the check passes
sendto(s, circuit_id, data, destination) ==
    LET passes == CheckPasses(s, circuit_id, destination, FALSE)
        s1 == check_num_packets(s, circuit_id, destination, FALSE)
    IN IF passes /\ is_allowed(data)
       THEN LET s2 == Send(s1, Msg("udp", destination, circuit_id, data, <<>>))
            IN increase_bytes_sent(s2, "TunnelExitSocket", circuit_id, PacketLen)
       ELSE s1

\* a variant of exit_data: the payload is sent out whether or not the node has
\* opted in to exit
exit_data_any_payload(s, circuit_id, sock_addr, destination, data) ==
    IF circuit_id \in DOMAIN s.exit_sockets
    THEN LET exit_socket == s.exit_sockets[circuit_id]
         IN IF ~exit_socket.enabled /\ sock_addr # exit_socket.sock_addr
            THEN s
            ELSE sendto([s EXCEPT !.exit_sockets[circuit_id].enabled = TRUE],
                        circuit_id, data, destination)
    ELSE s

\* become_exitnode is a setting of the node
exit_data(s, circuit_id, sock_addr, destination, data) ==
    IF ~s.become_exitnode /\ ~could_be_dispersy(data) THEN s
    ELSE IF circuit_id \in DOMAIN s.exit_sockets
    THEN LET exit_socket == s.exit_sockets[circuit_id]
         IN IF ~exit_socket.enabled /\ sock_addr # exit_socket.sock_addr
            THEN s                                   \* AssertionError
            ELSE sendto([s EXCEPT !.exit_sockets[circuit_id].enabled = TRUE],
                        circuit_id, data, destination)
    ELSE s

\* send_data: the layers crypto_out puts on a data packet
send_data(s, dst, circuit_id, arg) ==
    LET enc == crypto_out(s.circuits, s.relay_session_keys, circuit_id, <<>>, TRUE)
    IN IF enc.ok THEN Send(s, Msg("data", dst, circuit_id, arg, enc.content)) ELSE s

\* TunnelExitSocket.datagramReceived on the enabled socket of circuit_id
datagramReceived(s, circuit_id, data, source) ==
    LET s1 == increase_bytes_received(s, "TunnelExitSocket", circuit_id, PacketLen)
        passes == CheckPasses(s1, circuit_id, source, TRUE)
        s2 == check_num_packets(s1, circuit_id, source, TRUE)
    IN IF passes /\ is_allowed(data)
       THEN send_data(s2, s.exit_sockets[circuit_id].sock_addr, circuit_id, source)
       ELSE s2

\* ------------------------------------------------------------------ data
\* the branch on_destroy takes, and whether the sender is the one the branch
\* accepts the destroy from
DestroyCase(s, circuit_id, cand_sock_addr) ==
    IF circuit_id \in DOMAIN s.relay_from_to
    THEN IF DestroyAllowed(s, ToRemove(s, circuit_id, TRUE), <<circuit_id, cand_sock_addr>>)
         THEN "relay" ELSE "relay, sender not allowed"
    ELSE IF circuit_id \in DOMAIN s.exit_sockets
    THEN IF cand_sock_addr = s.exit_sockets[circuit_id].sock_addr
         THEN "exit" ELSE "exit, sender not allowed"
    ELSE IF circuit_id \in DOMAIN s.circuits
    THEN IF cand_sock_addr = s.circuits[circuit_id].first_hop
         THEN "circuit" ELSE "circuit, sender not allowed"
    ELSE "unknown"

\* ------------------------------------------------------------------ data
\* A received data packet d: src, circuit_id, layers, destination, origin and
\* data (the kind of the payload).
on_data_route(s, d) ==
    LET circuit_id == d.circuit_id
        r == relay_packet(s, circuit_id, "data", d.layers, None)
    IN IF r.res # "local" THEN r
       ELSE LET dec == crypto_in(r.s.circuits, r.s.relay_session_keys, circuit_id,
                                 d.layers, TRUE)
                s1 == r.s
            IN IF dec.err = "TypeError" THEN [s |-> s1, res |-> "raised"]
               ELSE IF ~dec.ok \/ dec.content # <<>> THEN [s |-> s1, res |-> "dropped"]
               ELSE IF /\ circuit_id \in DOMAIN s1.circuits
                       /\ d.origin # None
                       /\ d.src = s1.circuits[circuit_id].first_hop
               THEN LET s2 == BeatHeart(s1, circuit_id)
                    IN [s |-> Send(s2, Msg(IF could_be_dispersy(d.data)
                                           THEN "to_dispersy" ELSE "to_socks",
                                           NullAddr, circuit_id, d.origin, <<>>)),
                        res |-> "local"]
               ELSE IF d.destination # NullAddr
               THEN [s |-> exit_data(s1, circuit_id, d.src, d.destination, d.data),
                     res |-> "local"]
               ELSE [s |-> s1, res |-> "local"]

on_data(s, d) == on_data_route(s, d).s

\* --------------------------------------------------------------- sweeper
\* the three tests of do_remove on a circuit or a relay route
Inactive(s, x) == x.last_incoming < s.now - max_time_inactive
TooOld(s, x) == x.creation_time < s.now - max_time
OverTraffic(x) == x.bytes_up + x.bytes_down > max_traffic

\* a variant of CircuitExpired: the traffic of a circuit is not looked at
CircuitExpired_no_traffic(s, circuit) == Inactive(s, circuit) \/ TooOld(s, circuit)

CircuitExpired(s, circuit) ==
    Inactive(s, circuit) \/ TooOld(s, circuit) \/ OverTraffic(circuit)
RelayExpired(s, relay) ==
    Inactive(s, relay) \/ TooOld(s, relay) \/ OverTraffic(relay)
\* a variant of ExitExpired: the age of an exit socket is not looked at
ExitExpired_no_age(s, exit_socket) == OverTraffic(exit_socket)

ExitExpired(s, exit_socket) == TooOld(s, exit_socket) \/ OverTraffic(exit_socket)

RECURSIVE RemoveCircuits(_, _)
RemoveCircuits(s, ids) ==
    IF ids = {} THEN s
    ELSE LET c == CHOOSE x \in ids : TRUE
         IN RemoveCircuits(remove_circuit(s, c, FALSE), ids \ {c})

RECURSIVE RemoveRelays(_, _)
RemoveRelays(s, ids) ==
    IF ids = {} THEN s
    ELSE LET c == CHOOSE x \in ids : TRUE
         IN RemoveRelays(remove_relay(s, c, FALSE, <<>>, FALSE), ids \ {c})

RECURSIVE RemoveExitSockets(_, _)
RemoveExitSockets(s, ids) ==
    IF ids = {} THEN s
    ELSE LET c == CHOOSE x \in ids : TRUE
         IN RemoveExitSockets(remove_exit_socket(s, c, FALSE), ids \ {c})

SeqToSet(seq) == {seq[i] : i \in 1..Len(seq)}

\* do_remove: each loop runs over a copy of the map taken before it starts
do_remove(s, env) ==
    LET s1 == RemoveCircuits(s,
                 {c \in DOMAIN s.circuits : CircuitExpired(s, s.circuits[c])})
        s2 == RemoveRelays(s1,
                 {c \in DOMAIN s1.relay_from_to : RelayExpired(s1, s1.relay_from_to[c])})
        s3 == RemoveExitSockets(s2,
                 {c \in DOMAIN s2.exit_sockets : ExitExpired(s2, s2.exit_sockets[c])})
    IN [s3 EXCEPT !.exit_candidates =
                      Del(@, (DOMAIN @) \ SeqToSet(env.cands))]

\* ---------------------------------------------------------------- pacing
data_circuits(s, hops) ==
    {c \in DOMAIN s.circuits :
        /\ s.circuits[c].ctype = CIRCUIT_TYPE_DATA
        /\ (hops = None \/ hops = Len(s.circuits[c].hops))}

active_data_circuits(s, hops) ==
    {c \in data_circuits(s, hops) : CircuitState(s.circuits[c]) = CIRCUIT_STATE_READY}

\* ---------------------------------------------------------- RoundRobin
\* sorted(ids)[i], counting from 0
RECURSIVE Sorted(_)
Sorted(ids) ==
    IF ids = {} THEN <<>>
    ELSE LET least == CHOOSE x \in ids : \A y \in ids : x <= y
         IN <<least>> \o Sorted(ids \ {least})

\* a destination is an address with a port; None is NoDestination
Destination(ip, port) == [ip |-> ip, port |-> port]
NoDestination == Destination(None, None)

\* ip_to_circuit_id: an address under CIRCUIT_ID_PORT stands for a circuit id
ip_to_circuit_id(ip) == ip

\* a variant of Pinned: the type of the circuit is not looked at
Pinned_any_type(s, destination) ==
    IF destination = NoDestination THEN None
    ELSE IF destination.port # CIRCUIT_ID_PORT THEN None
    ELSE LET circuit_id == ip_to_circuit_id(destination.ip)
         IN IF /\ circuit_id \in DOMAIN s.circuits
               /\ CircuitState(s.circuits[circuit_id]) = CIRCUIT_STATE_READY
            THEN circuit_id ELSE None

\* the circuit the first test of select pins the destination to, None if none
Pinned(s, destination) ==
    IF destination = NoDestination THEN None
    ELSE IF destination.port # CIRCUIT_ID_PORT THEN None
    ELSE LET circuit_id == ip_to_circuit_id(destination.ip)
         IN IF /\ circuit_id \in DOMAIN s.circuits
               /\ CircuitState(s.circuits[circuit_id]) = CIRCUIT_STATE_READY
               /\ s.circuits[circuit_id].ctype = CIRCUIT_TYPE_RENDEZVOUS
            THEN circuit_id ELSE None

\* a variant of select: the index moves on by two
select_skips_one(s, destination, hops) ==
    LET circuit_ids == Sorted(active_data_circuits(s, hops))
    IN IF Pinned(s, destination) # None THEN [s |-> s, res |-> Pinned(s, destination)]
       ELSE IF circuit_ids = <<>> THEN [s |-> s, res |-> None]
       ELSE [s |-> [s EXCEPT !.index = (s.index + 2) % Len(circuit_ids)],
             res |-> circuit_ids[((s.index + 2) % Len(circuit_ids)) + 1]]

\* RoundRobin.select: the node state it leaves and the id of the circuit it
\* returns, None if it returns none
select(s, destination, hops) ==
    LET circuit_ids == Sorted(active_data_circuits(s, hops))
    IN IF Pinned(s, destination) # None THEN [s |-> s, res |-> Pinned(s, destination)]
       ELSE IF circuit_ids = <<>> THEN [s |-> s, res |-> None]
       ELSE [s |-> [s EXCEPT !.index = (s.index + 1) % Len(circuit_ids)],
             res |-> circuit_ids[((s.index + 1) % Len(circuit_ids)) + 1]]

RECURSIVE BuildCircuits(_, _, _, _)
\* "for _ in range(num_to_build): if not self.create_circuit(...): break";
\* st is <<node state, draws not yet used>>.  create_circuit returns the new
\* circuit id, so the loop also stops after a circuit whose id is 0.
BuildCircuits(st, circuit_length, num_to_build, env) ==
    IF num_to_build <= 0 THEN st
    ELSE IF CreateFails(st[1], circuit_length, CIRCUIT_TYPE_DATA, None,
                        env.cands, env.connectable)
    THEN st
    ELSE IF st[2] = <<>> THEN <<[st[1] EXCEPT !.drawn = FALSE], <<>>>>
    ELSE LET made == <<create_circuit(st[1], circuit_length, CIRCUIT_TYPE_DATA, 0,
                                      None, env.cands, env.connectable, Head(st[2])),
                       Tail(st[2])>>
         IN IF Head(st[2]) = 0 THEN made
            ELSE BuildCircuits(made, circuit_length, num_to_build - 1, env)

RECURSIVE BuildAll(_, _, _)
\* the loop of do_circuits over circuits_needed, by ascending length
BuildAll(st, lengths, env) ==
    IF lengths = {} THEN st
    ELSE LET l == CHOOSE x \in lengths : \A y \in lengths : x <= y
             num_to_build == st[1].circuits_needed[l]
                             - Cardinality(data_circuits(st[1], l))
         IN BuildAll(BuildCircuits(st, l, num_to_build, env), lengths \ {l}, env)

do_circuits(s, env, rnds) ==
    do_remove(BuildAll(<<s, rnds>>, DOMAIN s.circuits_needed, env)[1], env)

\* settings.max_circuits, scaled down with the other settings
max_circuits == 2
min_circuits == 1

tunnels_ready(s, hops) ==
    IF hops > 0
    THEN [s EXCEPT !.circuits_needed =
                       Put(@, hops, IF max_circuits > 1 THEN max_circuits ELSE 1)]
    ELSE s

\* ---------------------------------------------------------- cache expiry
\* CircuitRequestCache.on_timeout, then RequestCache._on_timeout drops the
\* identifier if it is still there
CircuitCacheStale(s, number) ==
    LET cache == s.request_cache.anon_circuit[number]
    IN \/ cache.broken
       \/ number \notin DOMAIN s.circuits
       \/ CircuitState(s.circuits[number]) # CIRCUIT_STATE_READY

\* a variant of CircuitCacheTimeout: the timeout leaves the circuit alone
CircuitCacheTimeout_keeps(s, number, env, rnd) ==
    CachePop(s, "anon_circuit", number)

CircuitCacheTimeout(s, number, env, rnd) ==
    LET cache == s.request_cache.anon_circuit[number]
        s1 == IF CircuitCacheStale(s, number)
              THEN LET s0 == remove_circuit(s, number, FALSE)
                   IN IF cache.retry_left >= 0
                      THEN create_circuit(s0, cache.goal_hops, cache.ctype,
                                          cache.retry_left, cache.retry_endpoint,
                                          env.cands, env.connectable, rnd)
                      ELSE s0
              ELSE s
    IN CachePop(s1, "anon_circuit", number)

\* CreatedRequestCache.on_timeout does nothing
CreatedCacheTimeout(s, number) == CachePop(s, "anon_created", number)

\* self.circuit.last_incoming of a PingRequestCache
PingLastIncoming(s, number) ==
    LET cache == s.request_cache.ping[number]
    IN IF cache.gone THEN cache.last_incoming
       ELSE s.circuits[cache.circuit_id].last_incoming

\* a variant of PingCacheTimeout: the circuit is removed whatever came in
PingCacheTimeout_always(s, number) ==
    CachePop(remove_circuit(s, s.request_cache.ping[number].circuit_id, FALSE),
             "ping", number)

\* PingRequestCache.on_timeout, then RequestCache._on_timeout drops the
\* identifier
PingCacheTimeout(s, number) ==
    LET cache == s.request_cache.ping[number]
        s1 == IF PingLastIncoming(s, number) < s.now - (PING_INTERVAL + PingGrace)
              THEN remove_circuit(s, cache.circuit_id, FALSE)
              ELSE s
    IN CachePop(s1, "ping", number)

RECURSIVE PingEach(_, _, _)
\* the loop of do_ping over the circuits ids, in ascending order of id;
\* numbers are the identifiers the new caches draw
PingEach(s, ids, numbers) ==
    IF ids = {} THEN s
    ELSE LET c == CHOOSE x \in ids : \A y \in ids : x <= y
             circuit == s.circuits[c]
         IN IF /\ CircuitState(circuit) = CIRCUIT_STATE_READY
               /\ circuit.ctype # CIRCUIT_TYPE_RENDEZVOUS
            THEN LET s1 == CacheAdd(s, "ping", Head(numbers), PingRequestCache(s, c))
                     s2 == send_cell(s1, circuit.first_hop, "ping", c, Head(numbers))
                 IN PingEach(increase_bytes_sent(s2, "Circuit", c, SentLen(s1, "ping", c)),
                             ids \ {c}, Tail(numbers))
            ELSE PingEach(s, ids \ {c}, numbers)

\* do_ping
do_ping(s, numbers) == PingEach(s, DOMAIN s.circuits, numbers)

\* ================================================================ actions
\* The answers of the overlay: the verified candidates in the order they are
\* yielded, and those among them that are connectable.
TheEnv == [cands |-> [i \in 1..MaxPeer |-> i], connectable |-> Peers]

\* exit_candidates once every peer has been walked: the last peer is the one
\* that is willing to exit
ExitCandidatesInit == [p \in Peers |-> p = MaxPeer]

\* a cell with the fields a handler does not read left at their defaults
Cell(type, src, circuit_id, layers) ==
    [type |-> type, src |-> src, circuit_id |-> circuit_id, layers |-> layers,
     key |-> 1, node_public_key |-> None, node_addr |-> None, signer |-> None,
     candidate_list |-> <<>>, cl_ok |-> TRUE, identifier |-> 0]

\* the counters of the model stay within MaxBytes and the circuits within
\* MaxCircuits: a step that would leave these bounds is not taken
WithinBounds(s) ==
    /\ s.drawn
    /\ Cardinality(DOMAIN s.circuits) <= MaxCircuits
    /\ \A c \in DOMAIN s.circuits :
          s.circuits[c].bytes_up <= MaxBytes /\ s.circuits[c].bytes_down <= MaxBytes
    /\ \A c \in DOMAIN s.relay_from_to :
          s.relay_from_to[c].bytes_up <= MaxBytes /\ s.relay_from_to[c].bytes_down <= MaxBytes
    /\ \A c \in DOMAIN s.exit_sockets :
          s.exit_sockets[c].bytes_up <= MaxBytes /\ s.exit_sockets[c].bytes_down <= MaxBytes
    /\ Len(s.retry_tasks) <= 1

\* what is kept of the last handler run: the handler, the branch it took and
\* what became of the packet
Event(op, case, res) == [op |-> op, case |-> case, res |-> res]

\* the branch a cell takes once it is handled locally
CellCase(s, m) ==
    IF m.type # "create" THEN m.type
    ELSE IF ~check_create(s, m) THEN "create: not for this node"
    ELSE IF TooManyRelays(s) THEN "create: too many relays"
    ELSE IF CacheHas(s, "anon_created", m.circuit_id) THEN "create: id collision"
    ELSE "create: joined"

InitNode ==
    /\ circuits = EmptyMap
    /\ relay_from_to = EmptyMap
    /\ exit_sockets = EmptyMap
    /\ directions = EmptyMap
    /\ relay_session_keys = EmptyMap
    /\ waiting_for = {}
    /\ request_cache = EmptyCache
    /\ exit_candidates = ExitCandidatesInit
    /\ circuits_needed = EmptyMap
    /\ retry_tasks = <<>>
    /\ index = -1
    /\ stats = ZeroStats
    /\ flushed = ZeroStats
    /\ now = 0
    /\ last = Event("init", "", "")

\* the application asks for a circuit
CreateCircuit(goal_hops, ctype, max_retries, required_endpoint, rnd) ==
    LET s2 == create_circuit(State, goal_hops, ctype, max_retries, required_endpoint,
                             TheEnv.cands, TheEnv.connectable, rnd)
    IN /\ WithinBounds(s2)
       /\ Commit(s2, Event("create_circuit", ctype,
                           IF s2.circuits = circuits THEN "failed" ELSE "created"))

\* a cell arrives
OnCell(m, rnd) ==
    LET r == on_cell_route(State, m, TheEnv, rnd)
    IN /\ WithinBounds(r.s)
       /\ Commit(r.s, Event("on_cell", CellCase(State, m), r.res))

\* a data packet arrives; the event tells whether it cost an exit socket
OnData(d) ==
    LET r == on_data_route(State, d)
    IN /\ WithinBounds(r.s)
       /\ Commit(r.s, Event("on_data",
                            IF DOMAIN exit_sockets \subseteq DOMAIN r.s.exit_sockets
                            THEN "data" ELSE "exit socket removed",
                            r.res))

\* a datagram from the outside world arrives at the port of an exit socket
DatagramReceived(circuit_id, data, source) ==
    /\ circuit_id \in DOMAIN exit_sockets
    /\ exit_sockets[circuit_id].enabled
    /\ LET s2 == datagramReceived(State, circuit_id, data, source)
       IN /\ WithinBounds(s2)
          /\ Commit(s2, Event("datagramReceived",
                              IF circuit_id \in DOMAIN s2.exit_sockets
                              THEN "data" ELSE "exit socket removed",
                              ""))

\* a destroy message arrives
OnDestroy(circuit_id, src) ==
    Commit(on_destroy(State, circuit_id, src),
           Event("on_destroy", DestroyCase(State, circuit_id, src), ""))

\* what the 5-second task took away besides circuits
Swept(s, s2) ==
    IF ~(DOMAIN s.relay_from_to \subseteq DOMAIN s2.relay_from_to) THEN "relay removed"
    ELSE IF ~(DOMAIN s.exit_sockets \subseteq DOMAIN s2.exit_sockets)
    THEN "exit socket removed"
    ELSE ""

\* the 5-second task; the event tells whether it took away a circuit and
\* whether it took away a relay entry or an exit socket
DoCircuits(rnds) ==
    LET s2 == do_circuits(State, TheEnv, rnds)
    IN /\ WithinBounds(s2)
       /\ Commit(s2, Event("do_circuits",
                           IF DOMAIN circuits \subseteq DOMAIN s2.circuits
                           THEN "" ELSE "circuit removed",
                           Swept(State, s2)))

\* time passes
Tick ==
    /\ now < MaxNow
    /\ Commit([State EXCEPT !.now = now + 1], Event("tick", "", ""))

\* ----------------------------------------------------------- input sets
Keys == 1..MaxKey

\* the encrypted part as the honest neighbour of circuit_id makes it: one
\* ORIGINATOR layer per hop of an own circuit, one EXIT_NODE layer for a
\* circuit this node relays or exits
HonestLayers(s, circuit_id) ==
    IF circuit_id \in DOMAIN s.circuits /\ Len(s.circuits[circuit_id].hops) > 0
    THEN [i \in 1..Len(s.circuits[circuit_id].hops) |->
             Layer(s.circuits[circuit_id].hops[i].session_keys, ORIGINATOR)]
    ELSE IF circuit_id \in DOMAIN s.relay_session_keys
    THEN <<Layer(s.relay_session_keys[circuit_id], EXIT_NODE)>>
    ELSE <<>>

\* the encrypted parts tried for a packet on circuit_id: the honest one and
\* none at all
LayerInputs(s, circuit_id) == {<<>>, HonestLayers(s, circuit_id)}

\* a data packet
Data(src, circuit_id, layers, destination, origin, data) ==
    [src |-> src, circuit_id |-> circuit_id, layers |-> layers,
     destination |-> destination, origin |-> origin, data |-> data]

\* the ids this node has not seen yet: a 32-bit draw is taken to hit none of
\* the few ids seen, except under SpecIds, which follows every draw
FreshIds(s) ==
    Ids \ (DOMAIN s.circuits \cup DOMAIN s.relay_from_to \cup DOMAIN s.exit_sockets
           \cup s.waiting_for \cup DOMAIN s.directions \cup DOMAIN s.relay_session_keys)

\* the draws followed for a cell: on_extend is the one handler that draws
DrawsFor(m, ids) == IF m.type = "extend" THEN ids ELSE {0}

\* ------------------------------------------------- Spec: the relay side
\* Peer 1 is the previous hop, peer 2 the hop circuits are extended to, and
\* peer MaxPeer a stranger; the previous hop picks circuit ids 0 and 1.
RelayCreateCells ==
    {[Cell("create", 1, c, <<>>) EXCEPT !.node_public_key = n] :
        c \in {0, 1}, n \in {MyKey, 1}}

RelayExtendCells(s) ==
    UNION {{[Cell("extend", 1, c, l) EXCEPT !.node_public_key = n] :
               l \in LayerInputs(s, c), n \in {None, 2, MaxPeer}} : c \in {0, 1}}

RelayCreatedCells == {[Cell("created", 2, c, <<>>) EXCEPT !.signer = 2] : c \in Ids}

RelayPingCells(s) ==
    UNION {{Cell("ping", 1, c, l) : l \in LayerInputs(s, c)} : c \in Ids}

RelayCells(s) ==
    RelayCreateCells \cup RelayExtendCells(s) \cup RelayCreatedCells \cup RelayPingCells(s)

\* data packets that are not for the outside world; SpecExit follows the others
RelayData(s) ==
    UNION {{Data(1, c, l, NullAddr, NullAddr, "allowed") : l \in LayerInputs(s, c)} :
           c \in Ids}

Init == InitNode /\ become_exitnode = TRUE

RelayOnCell ==
    \E m \in RelayCells(State) : \E rnd \in DrawsFor(m, FreshIds(State)) : OnCell(m, rnd)

RelayOnData == \E d \in RelayData(State) : OnData(d)

RelayDestroy == \E circuit_id \in Ids, src \in Peers : OnDestroy(circuit_id, src)

CreatedTimeout ==
    \E number \in DOMAIN request_cache.anon_created :
        Commit(CreatedCacheTimeout(State, number),
               Event("timeout", "anon-created", ""))

Next ==
    \/ RelayOnCell
    \/ RelayOnData
    \/ RelayDestroy
    \/ CreatedTimeout

Spec == Init /\ [][Next]_vars

\* ------------------------------------------------------------- claim C6
\* every create cell a peer can send
AnyCreateCells ==
    {[Cell("create", src, c, <<>>) EXCEPT !.key = k, !.node_public_key = n] :
        src \in Peers, c \in Ids, k \in Keys, n \in {MyKey, 1}}

TableFull ==
    Cardinality(DOMAIN relay_from_to) + Cardinality(DOMAIN exit_sockets)
        >= max_relays_or_exits

SentTypes(s) == {s.sent[i].type : i \in 1..Len(s.sent)}

CreateIgnored(s2) ==
    /\ s2.directions = directions
    /\ s2.relay_session_keys = relay_session_keys
    /\ s2.exit_sockets = exit_sockets
    /\ s2.relay_from_to = relay_from_to
    /\ s2.request_cache = request_cache
    /\ "created" \notin SentTypes(s2)

\* C6: a create that on_create receives while |relay_from_to| + |exit_sockets|
\* >= max_relays_or_exits is ignored: directions, relay_session_keys,
\* exit_sockets, relay_from_to and the request cache stay as they are and no
\* created is sent; the same holds of the whole of on_cell for a create cell
\* whose circuit id is not the id of a relay.
C6_CreateIgnoredWhenFull ==
    TableFull =>
        \A m \in AnyCreateCells :
            /\ CreateIgnored(on_create(State, m, TheEnv))
            /\ m.circuit_id \notin DOMAIN relay_from_to
                  => CreateIgnored(on_cell(State, m, TheEnv, 0))

\* a create for this node has just been ignored because the table is full
C6_Witness ==
    /\ TableFull
    /\ last = Event("on_cell", "create: too many relays", "local")

\* ------------------------------------------------------------- claim C7
\* the addresses the two entries of relay circuit_id name: where packets on
\* circuit_id go to, and where they come from
RelayNeighbours(circuit_id) ==
    {relay_from_to[circuit_id].sock_addr} \cup
    {relay_from_to[k].sock_addr :
        k \in {x \in DOMAIN relay_from_to : relay_from_to[x].circuit_id = circuit_id}}

DestroyAuthorized(circuit_id, src) ==
    \/ circuit_id \in DOMAIN circuits /\ circuits[circuit_id].first_hop = src
    \/ circuit_id \in DOMAIN exit_sockets /\ exit_sockets[circuit_id].sock_addr = src
    \/ circuit_id \in DOMAIN relay_from_to /\ src \in RelayNeighbours(circuit_id)

\* C7: a destroy for circuit id c from an address that is neither the first
\* hop of own circuit c, nor the previous hop of exit socket c, nor a
\* neighbour of relay c is rejected: circuits, relay_from_to,
\* relay_session_keys and exit_sockets stay as they are and no destroy is sent.
C7_UnauthorizedDestroyRejected ==
    \A circuit_id \in Ids, src \in Peers :
        ~DestroyAuthorized(circuit_id, src) =>
            LET s2 == on_destroy(State, circuit_id, src)
            IN /\ s2.circuits = circuits
               /\ s2.relay_from_to = relay_from_to
               /\ s2.relay_session_keys = relay_session_keys
               /\ s2.exit_sockets = exit_sockets
               /\ "destroy" \notin SentTypes(s2)

\* a destroy for a relay has arrived from an address destroy_relay refuses
C7_Witness == last = Event("on_destroy", "relay, sender not allowed", "")

\* ------------------------------------------------------------- claim C8
CellTypes == {"create", "created", "extend", "extended", "ping", "pong"}

\* every cell a peer can send, as far as its routing goes
AnyCells(s) ==
    UNION {{Cell(ty, src, c, l) : ty \in CellTypes, src \in Peers,
                                  l \in LayerInputs(s, c)} : c \in Ids}

AnyData(s) ==
    UNION {{Data(src, c, l, NullAddr, NullAddr, "allowed") :
               src \in Peers, l \in LayerInputs(s, c)} : c \in Ids}

\* every packet that can arrive now and what becomes of it
Routed(circuit_id, type, layers, r) ==
    [circuit_id |-> circuit_id, type |-> type, layers |-> layers, res |-> r.res, s |-> r.s]

Routes ==
    {Routed(m.circuit_id, m.type, m.layers, on_cell_route(State, m, TheEnv, 0)) :
        m \in AnyCells(State)}
    \cup {Routed(d.circuit_id, "data", d.layers, on_data_route(State, d)) :
             d \in AnyData(State)}

RelayEntry(circuit_id) ==
    circuit_id \in DOMAIN relay_from_to /\ circuit_id \notin waiting_for

\* the packet went out on the relay path: relay_packet returned True and a
\* packet of the same type left for the next hop under the next circuit id
Forwarded(x) ==
    /\ x.res = "relayed"
    /\ \E i \in 1..Len(x.s.sent) :
          /\ x.s.sent[i].type = x.type
          /\ x.s.sent[i].dst = relay_from_to[x.circuit_id].sock_addr
          /\ x.s.sent[i].circuit_id = relay_from_to[x.circuit_id].circuit_id

NotForwarded(x) == x.res # "relayed" /\ x.type \notin SentTypes(x.s)

\* nothing but the bookkeeping of the relay entries has changed
OnlyRelayed(s2) ==
    [s2 EXCEPT !.relay_from_to = relay_from_to, !.stats = stats, !.sent = <<>>] = State

\* the crypto step of the relay of x.circuit_id goes through
RelayCryptoOk(x) ==
    /\ ~RelayRaises(State, x.circuit_id)
    /\ RelayCrypto(State, x.circuit_id, x.layers).ok

\* the statement of C8 as the specification has it: a packet is forwarded
\* exactly when its circuit id is a key of relay_from_to and not in waiting_for
C8_ForwardedIffRelayEntry ==
    \A x \in Routes :
        IF RelayEntry(x.circuit_id) THEN Forwarded(x) ELSE NotForwarded(x)

\* C8: an incoming cell or data packet with circuit id c is forwarded on the
\* relay path only if c > 0, c is a key of relay_from_to and c is not in
\* waiting_for; when these hold and the crypto step of the relay succeeds, it
\* is forwarded and not processed locally; in every other case it is not
\* forwarded.
C8_ForwardedIffRelay ==
    \A x \in Routes :
        IF x.circuit_id > 0 /\ RelayEntry(x.circuit_id) /\ RelayCryptoOk(x)
        THEN Forwarded(x) /\ OnlyRelayed(x.s)
        ELSE NotForwarded(x)

\* a packet has just been forwarded on the relay path
C8_Witness == last.res = "relayed" /\ \E c \in Ids : c > 0 /\ RelayEntry(c)

\* ------------------------------------------------------------- claim C9
\* C9: an id the allocator returns for a neighbour is not the id of a circuit
\* in circuits and not the id of a relay_from_to entry for that neighbour.
C9_AllocatedIdUnique ==
    \A neighbour \in Peers :
        \A circuit_id \in _generate_circuit_id(State, neighbour) :
            /\ circuit_id \notin DOMAIN circuits
            /\ ~(/\ circuit_id \in DOMAIN relay_from_to
                 /\ relay_from_to[circuit_id].sock_addr = neighbour)

\* a relay entry exists, so there is an id the allocator has to avoid
C9_Witness == last.case = "extend" /\ relay_from_to # EmptyMap

\* -------------------------------------------- SpecBuild: the initiator
\* The application keeps one data circuit at a time, of 1..MaxHops hops and
\* with one retry; its first hop is peer 1 (the first verified candidate) and
\* the exit is the endpoint asked for or peer MaxPeer (the exit candidate).
\* The candidate lists a created or extended cell carries, and a list that
\* does not decrypt
CandLists == {<<>>, <<MaxPeer>>, <<1, 1>>, <<MyKey, 2>>}

ReplyBodies == {<<cl, TRUE>> : cl \in CandLists} \cup {<<(<<>>), FALSE>>}

\* the key that signs a created or extended cell: the pending hop, or
\* somebody else
SignerInputs(s, circuit_id) == {MyKey, s.circuits[circuit_id].unverified_hop}

\* the session key a hop agrees on: hop i of a circuit hands out key i
HopKey(s, circuit_id) == Min(Len(s.circuits[circuit_id].hops) + 1, MaxKey)

\* the encrypted parts tried for a reply: a created cell has none
ReplyLayers(s, type, circuit_id) ==
    IF type = "created" THEN {<<>>} ELSE LayerInputs(s, circuit_id)

\* the replies to the handshakes of the circuits that exist, and one bare
\* reply for every other id
ReplyCells(s, type) ==
    UNION {IF c \in DOMAIN s.circuits
           THEN {[Cell(type, 1, c, l) EXCEPT !.key = HopKey(s, c), !.signer = sg,
                     !.candidate_list = b[1], !.cl_ok = b[2]] :
                   l \in ReplyLayers(s, type, c), sg \in SignerInputs(s, c),
                   b \in ReplyBodies}
           ELSE {Cell(type, 1, c, <<>>)} : c \in Ids}

BuildCreatedCells(s) == ReplyCells(s, "created")

BuildExtendedCells(s) == ReplyCells(s, "extended")

InitBuild == InitNode /\ become_exitnode = FALSE

\* the ids the random generator hands out under SpecBuild
BuildIds(s) == FreshIds(s) \ {0}

BuildCreateCircuit ==
    \E goal_hops \in 1..MaxHops, required_endpoint \in {None, 2}, rnd \in BuildIds(State) :
        /\ circuits = EmptyMap
        /\ CreateCircuit(goal_hops, CIRCUIT_TYPE_DATA, 1, required_endpoint, rnd)

BuildOnCell ==
    \E m \in BuildCreatedCells(State) \cup BuildExtendedCells(State) : OnCell(m, 0)

BuildDestroy == \E circuit_id \in Ids, src \in {1, 2} : OnDestroy(circuit_id, src)

\* the retry lambda registered by create_circuit fires
RetryFire(s, env, rnd) ==
    LET retry == Head(s.retry_tasks)
    IN create_circuit([s EXCEPT !.retry_tasks = Tail(@)], retry.h, retry.t, retry.r,
                      retry.e, env.cands, env.connectable, rnd)

BuildTimeout ==
    \E number \in DOMAIN request_cache.anon_circuit, rnd \in BuildIds(State) :
        LET s2 == CircuitCacheTimeout(State, number, TheEnv, rnd)
        IN /\ WithinBounds(s2)
           /\ Commit(s2, Event("timeout", "anon-circuit", ""))

NextBuild ==
    \/ BuildCreateCircuit
    \/ BuildOnCell
    \/ BuildDestroy
    \/ BuildTimeout

SpecBuild == InitBuild /\ [][NextBuild]_vars

\* ------------------------------------------------------------- claim C1
\* C1: every circuit in circuits has at most goal_hops verified hops, and its
\* state is READY exactly when the number of verified hops equals goal_hops
\* and no unverified hop is pending.
C1_CircuitInvariant ==
    \A c \in DOMAIN circuits :
        /\ Len(circuits[c].hops) <= circuits[c].goal_hops
        /\ CircuitState(circuits[c]) = CIRCUIT_STATE_READY
              <=> /\ Len(circuits[c].hops) = circuits[c].goal_hops
                  /\ circuits[c].unverified_hop = None

\* a circuit of more than one hop has just become READY on an extended cell
C1_Witness ==
    /\ last = Event("on_cell", "extended", "local")
    /\ \E c \in DOMAIN circuits :
          /\ CircuitState(circuits[c]) = CIRCUIT_STATE_READY
          /\ Len(circuits[c].hops) = MaxHops

\* ---------------------------------------------- SpecSweep: the sweeper
\* The application asks for one-hop data circuits, their first hop answers,
\* packets arrive on them, time passes and the 5-second task runs.
\* created from the first hop of an own circuit
SweepCreatedCells(s) ==
    {[Cell("created", s.circuits[c].first_hop, c, <<>>)
         EXCEPT !.signer = s.circuits[c].unverified_hop] : c \in DOMAIN s.circuits}

SweepPingCells(s) ==
    {Cell("ping", s.circuits[c].first_hop, c, HonestLayers(s, c)) : c \in DOMAIN s.circuits}

InitSweep == InitNode /\ become_exitnode = FALSE

SweepCreateCircuit ==
    \E rnd \in FreshIds(State) : CreateCircuit(1, CIRCUIT_TYPE_DATA, 0, None, rnd)

SweepOnCell ==
    \E m \in SweepCreatedCells(State) \cup SweepPingCells(State) : OnCell(m, 0)

SweepDoCircuits == DoCircuits(<<>>)

NextSweep ==
    \/ SweepCreateCircuit
    \/ SweepOnCell
    \/ Tick
    \/ SweepDoCircuits

SpecSweep == InitSweep /\ [][NextSweep]_vars

\* ------------------------------------------------------------ claim C10
\* the three conditions of the claim, for own circuit c at the present time
IdleTooLong(c) == now - circuits[c].last_incoming > max_time_inactive
LivedTooLong(c) == now - circuits[c].creation_time > max_time
TrafficTooHigh(c) == circuits[c].bytes_up + circuits[c].bytes_down > max_traffic

SweepDue(c) == IdleTooLong(c) \/ LivedTooLong(c) \/ TrafficTooHigh(c)

\* the circuits of s2 are those of now that are not due, each as it was
KeepsExactlyTheRest(s2) ==
    /\ DOMAIN s2.circuits = {c \in DOMAIN circuits : ~SweepDue(c)}
    /\ \A c \in DOMAIN s2.circuits : s2.circuits[c] = circuits[c]

\* C10: a sweeper tick (do_remove, and the 5-second task that ends with it)
\* run in any reachable state leaves no circuit that is idle for more than
\* max_time_inactive, older than max_time or has bytes_up + bytes_down above
\* max_traffic, and leaves every other circuit where it is.
C10_SweeperRemovesExactlyDue ==
    /\ KeepsExactlyTheRest(do_remove(State, TheEnv))
    /\ KeepsExactlyTheRest(do_circuits(State, TheEnv, <<>>))

\* the 5-second task has just removed one circuit and kept another
C10_Witness ==
    /\ last.op = "do_circuits" /\ last.case = "circuit removed"
    /\ circuits # EmptyMap

\* ------------------------------------ SpecRelaySweep: sweeping relays
\* Peer 1 has a circuit through this node extended to peer 2, packets arrive
\* on it from both sides, time passes and the 5-second task runs.
RelaySweepCreateCells == {[Cell("create", 1, 1, <<>>) EXCEPT !.node_public_key = MyKey]}

RelaySweepExtendCells(s) ==
    {[Cell("extend", 1, 1, HonestLayers(s, 1)) EXCEPT !.node_public_key = 2]}

RelaySweepCreatedCells(s) ==
    {[Cell("created", 2, c, <<>>) EXCEPT !.signer = 2] : c \in s.waiting_for}

\* a ping travelling along the relayed circuit, in either direction
RelaySweepPingCells(s) ==
    {Cell("ping", s.relay_from_to[s.relay_from_to[c].circuit_id].sock_addr, c,
          HonestLayers(s, c)) :
        c \in {x \in DOMAIN s.relay_from_to :
                  s.relay_from_to[x].circuit_id \in DOMAIN s.relay_from_to}}

InitRelaySweep == InitNode /\ become_exitnode = TRUE

RelaySweepCells(s) ==
    RelaySweepCreateCells \cup RelaySweepExtendCells(s) \cup RelaySweepCreatedCells(s)
        \cup RelaySweepPingCells(s)

RelaySweepOnCell ==
    \E m \in RelaySweepCells(State) : \E rnd \in DrawsFor(m, FreshIds(State)) :
        OnCell(m, rnd)

RelaySweepDoCircuits == DoCircuits(<<>>)

RelaySweepTick == Tick

NextRelaySweep ==
    \/ RelaySweepOnCell
    \/ RelaySweepTick
    \/ RelaySweepDoCircuits

SpecRelaySweep == InitRelaySweep /\ [][NextRelaySweep]_vars

\* ------------------------------------------------------------- claim C2
\* C2: for every key c of relay_from_to the entry
\* relay_from_to[relay_from_to[c].circuit_id] exists and its circuit_id is c.
C2_RelayEntriesPaired ==
    \A c \in DOMAIN relay_from_to :
        /\ relay_from_to[c].circuit_id \in DOMAIN relay_from_to
        /\ relay_from_to[relay_from_to[c].circuit_id].circuit_id = c

\* the 5-second task has just removed a relay entry
C2_Witness == last.op = "do_circuits" /\ last.res = "relay removed"

\* ------------------------------ SpecIds: own circuits and relays, any id
\* This node builds a circuit of its own while peer 1 builds a circuit
\* through it under id 1, and every value of the id generator is followed:
\* an id can be taken on both sides.
IdsCreateCells == {[Cell("create", 1, 1, <<>>) EXCEPT !.node_public_key = MyKey]}

IdsExtendCells(s) ==
    {[Cell("extend", 1, 1, HonestLayers(s, 1)) EXCEPT !.node_public_key = 2]}

\* created from whoever a create went to under id c
IdsCreatedCells(s) ==
    {[Cell("created", 2, c, <<>>) EXCEPT
         !.signer = IF c \in DOMAIN s.circuits THEN s.circuits[c].unverified_hop ELSE 2] :
       c \in s.waiting_for}

InitIds == InitNode /\ become_exitnode = TRUE

IdsCreateCircuit ==
    \E goal_hops \in 1..2, rnd \in Ids :
        /\ circuits = EmptyMap
        /\ CreateCircuit(goal_hops, CIRCUIT_TYPE_DATA, 0, None, rnd)

IdsCells(s) == IdsCreateCells \cup IdsExtendCells(s) \cup IdsCreatedCells(s)

IdsOnCell == \E m \in IdsCells(State) : \E rnd \in DrawsFor(m, Ids) : OnCell(m, rnd)

NextIds ==
    \/ IdsCreateCircuit
    \/ IdsOnCell

SpecIds == InitIds /\ [][NextIds]_vars

\* ------------------------------------------------------------- claim C3
\* C3: a circuit id that is at the same time a key of circuits and a key of
\* relay_from_to is in waiting_for.
C3_SharedIdIsWaiting ==
    \A c \in DOMAIN circuits \cap DOMAIN relay_from_to : c \in waiting_for

\* a created cell has just been handled for an id that is an own circuit
\* and a relay entry
C3_Witness ==
    /\ last.op = "on_cell" /\ last.case = "created"
    /\ DOMAIN circuits \cap DOMAIN relay_from_to # {}

\* ------------------------------------------------- SpecExit: the exit
\* Peer 1 makes this node the exit of circuit 1 and sends data for the
\* destinations 1 and 2 through it; a stranger sends data too, and the
\* destinations answer.
Destinations == {1, 2}

ExitCreateCells == {[Cell("create", 1, 1, <<>>) EXCEPT !.node_public_key = MyKey]}

ExitData(s) ==
    {Data(src, c, HonestLayers(s, c), dest, NullAddr, kind) :
        src \in {1, MaxPeer}, c \in DOMAIN s.exit_sockets, dest \in Destinations,
        kind \in {"allowed", "forbidden"}}

InitExit == InitNode /\ become_exitnode = TRUE

ExitOnCell == \E m \in ExitCreateCells : OnCell(m, 0)

ExitOnData == \E d \in ExitData(State) : OnData(d)

ExitDatagram ==
    \E circuit_id \in DOMAIN exit_sockets, source \in Destinations :
        DatagramReceived(circuit_id, "allowed", source)

NextExit ==
    \/ ExitOnCell
    \/ ExitOnData
    \/ ExitDatagram

SpecExit == InitExit /\ [][NextExit]_vars

\* ------------------------------------------------------------- claim C5
\* the outbound datagrams exit socket c has let through to dest since it was
\* made, when dest has not answered yet
Unanswered(c, dest) == Ips(exit_sockets[c], dest) >= 0

UdpTo(s2, dest) == \E i \in 1..Len(s2.sent) : s2.sent[i].type = "udp" /\ s2.sent[i].dst = dest

\* an allowed datagram for dest, from the previous hop of exit socket c
Outbound(c, dest) ==
    Data(exit_sockets[c].sock_addr, c, HonestLayers(State, c), dest, NullAddr, "allowed")

\* C5: for an exit socket c and a destination dest that has not answered: as
\* long as fewer than max_packets_without_reply datagrams went to dest, the
\* next one passes the check, is sent and is counted; once
\* max_packets_without_reply went out, the next one is not sent and c is
\* removed from exit_sockets.  The count never exceeds the limit.
C5_ExitAbuseCounter ==
    \A c \in DOMAIN exit_sockets, dest \in Destinations :
        Unanswered(c, dest) =>
            LET n == Ips(exit_sockets[c], dest)
                s2 == on_data(State, Outbound(c, dest))
            IN /\ n <= max_packets_without_reply
               /\ IF n < max_packets_without_reply
                  THEN /\ CheckPasses(State, c, dest, FALSE)
                       /\ UdpTo(s2, dest)
                       /\ c \in DOMAIN s2.exit_sockets
                       /\ Ips(s2.exit_sockets[c], dest) = n + 1
                  ELSE /\ ~CheckPasses(State, c, dest, FALSE)
                       /\ ~UdpTo(s2, dest)
                       /\ c \notin DOMAIN s2.exit_sockets

\* a datagram too many has just cost the exit socket
C5_Witness ==
    /\ last = Event("on_data", "exit socket removed", "local")
    /\ exit_sockets = EmptyMap

\* ------------------------------------- SpecCrypto: the layers of a circuit
\* This node builds one circuit, of any type and of 1..MaxHops hops, whose
\* hops answer honestly with any session key; cells and data come back on it.
\* The other nodes of the circuit run the same code: their tables are what
\* the handlers leave in a node that has just started.
NewNode ==
    [circuits |-> EmptyMap, relay_from_to |-> EmptyMap, exit_sockets |-> EmptyMap,
     directions |-> EmptyMap, relay_session_keys |-> EmptyMap, waiting_for |-> {},
     request_cache |-> EmptyCache, exit_candidates |-> ExitCandidatesInit,
     circuits_needed |-> EmptyMap, retry_tasks |-> <<>>, become_exitnode |-> TRUE,
     index |-> -1, stats |-> ZeroStats, flushed |-> ZeroStats,
     now |-> 0, sent |-> <<>>, drawn |-> TRUE]

\* a hop after the create that reached it under id 1, the handshake giving
\* the session key set key
JoinedNode(key) ==
    on_create(NewNode,
              [Cell("create", 1, 1, <<>>) EXCEPT !.key = key, !.node_public_key = MyKey],
              TheEnv)

\* a hop that has then extended the circuit to peer 2 under id 2
RelayNode(key) ==
    on_created(on_extend(JoinedNode(key),
                         [Cell("extend", 1, 1, <<>>) EXCEPT !.node_public_key = 2], 2),
               [Cell("created", 2, 2, <<>>) EXCEPT !.signer = 2])

RECURSIVE PeelAtRelays(_, _, _)
\* towards the exit: crypto_relay at the hops i .. h-1, on the id the packet
\* comes in under
PeelAtRelays(hops, i, res) ==
    IF i >= Len(hops) \/ ~res.ok THEN res
    ELSE LET node == RelayNode(hops[i].session_keys)
         IN PeelAtRelays(hops, i + 1,
                crypto_relay(node.directions, node.relay_session_keys, 1, res.content))

RECURSIVE WrapAtRelays(_, _, _)
\* towards the originator: crypto_relay at the hops i .. 1
WrapAtRelays(hops, i, res) ==
    IF i < 1 \/ ~res.ok THEN res
    ELSE LET node == RelayNode(hops[i].session_keys)
         IN WrapAtRelays(hops, i - 1,
                crypto_relay(node.directions, node.relay_session_keys, 2, res.content))

\* what the final hop of own circuit c holds after its crypto_in, for the
\* content this node hands to crypto_out
AtFinalHop(c, content, is_data) ==
    LET hops == circuits[c].hops
        out == crypto_out(circuits, relay_session_keys, c, content, is_data)
        final == JoinedNode(hops[Len(hops)].session_keys)
        res == PeelAtRelays(hops, 1, out)
    IN IF ~res.ok THEN res
       ELSE crypto_in(final.circuits, final.relay_session_keys, 1, res.content, is_data)

\* what this node holds after its crypto_in, for the content the final hop of
\* own circuit c hands to crypto_out
AtInitiator(c, content, is_data) ==
    LET hops == circuits[c].hops
        final == JoinedNode(hops[Len(hops)].session_keys)
        out == crypto_out(final.circuits, final.relay_session_keys, 1, content, is_data)
        res == WrapAtRelays(hops, Len(hops) - 1, out)
    IN IF ~res.ok THEN res
       ELSE crypto_in(circuits, relay_session_keys, c, res.content, is_data)

CryptoCreatedCells(s) ==
    {[Cell("created", s.circuits[c].first_hop, c, <<>>) EXCEPT
         !.key = k, !.signer = s.circuits[c].unverified_hop, !.candidate_list = <<2, MaxPeer>>] :
       c \in DOMAIN s.circuits, k \in Keys}

CryptoExtendedCells(s) ==
    {[Cell("extended", s.circuits[c].first_hop, c, HonestLayers(s, c)) EXCEPT
         !.key = k, !.signer = s.circuits[c].unverified_hop, !.candidate_list = <<2, MaxPeer>>] :
       c \in DOMAIN s.circuits, k \in Keys}

\* data from the outside world, as the exit of circuit c sends it back
CryptoData(s) ==
    {Data(s.circuits[c].first_hop, c, HonestLayers(s, c), NullAddr, 1, "allowed") :
        c \in DOMAIN s.circuits}

InitCrypto == InitNode /\ become_exitnode = FALSE

CryptoCreateCircuit ==
    \E goal_hops \in 1..MaxHops, rnd \in BuildIds(State),
       ctype \in {CIRCUIT_TYPE_DATA, CIRCUIT_TYPE_RP, CIRCUIT_TYPE_RENDEZVOUS} :
        /\ circuits = EmptyMap
        /\ CreateCircuit(goal_hops, ctype, 0, None, rnd)

CryptoOnCell ==
    \E m \in CryptoCreatedCells(State) \cup CryptoExtendedCells(State) : OnCell(m, 0)

CryptoOnData == \E d \in CryptoData(State) : OnData(d)

NextCrypto ==
    \/ CryptoCreateCircuit
    \/ CryptoOnCell
    \/ CryptoOnData

SpecCrypto == InitCrypto /\ [][NextCrypto]_vars

\* ------------------------------------------------------------- claim C4
\* a payload is what lies under the layers: nothing, some bytes, or bytes
\* that look like a layer
Plain(p) == <<[key |-> p, dir |-> None]>>
Payloads == {<<>>, Plain(1), <<Layer(1, EXIT_NODE)>>, <<Layer(1, ORIGINATOR)>>}

ReadyCircuits ==
    {c \in DOMAIN circuits : CircuitState(circuits[c]) = CIRCUIT_STATE_READY}

RoundTrip(c, P, is_data) ==
    /\ AtFinalHop(c, P, is_data) = Ok(P)
    /\ AtInitiator(c, P, is_data) = Ok(P)

\* the statement of C4 as the specification has it: for any payload and any
\* READY circuit, cell or data, the layers of crypto_out come off at the
\* relays and the final hop, and those of the way back at the initiator
C4_RoundTripAnyCircuit ==
    \A c \in ReadyCircuits, P \in Payloads, is_data \in BOOLEAN : RoundTrip(c, P, is_data)

\* C4: for any payload P and any READY circuit, for a cell, and for data when
\* the circuit is a DATA circuit: the layers put on by the initiator's
\* crypto_out, peeled one per relay by crypto_relay and by crypto_in at the
\* final hop, yield P there; and the layer of the final hop's crypto_out plus
\* one per relay on the way back are removed by the initiator's crypto_in to
\* yield P.
C4_RoundTrip ==
    \A c \in ReadyCircuits, P \in Payloads, is_data \in BOOLEAN :
        (~is_data \/ circuits[c].ctype = CIRCUIT_TYPE_DATA) => RoundTrip(c, P, is_data)

\* a READY data circuit of MaxHops hops that do not all have the same key
C4_Witness ==
    \E c \in ReadyCircuits :
        /\ circuits[c].ctype = CIRCUIT_TYPE_DATA
        /\ Len(circuits[c].hops) = MaxHops
        /\ circuits[c].hops[1].session_keys # circuits[c].hops[MaxHops].session_keys

\* ------------------------------------------------------------ claim C11
\* the entries of relay_from_to that point at entry c
Mirrors(c) == {k \in DOMAIN relay_from_to : relay_from_to[k].circuit_id = c}

\* C11: when a sweeper tick removes a relay entry c, the mirror entry (the
\* entry whose circuit_id is c) is removed in the same tick.
C11_MirrorSweptTogether ==
    LET s2 == do_circuits(State, TheEnv, <<>>)
    IN \A c \in DOMAIN relay_from_to \ DOMAIN s2.relay_from_to :
           Mirrors(c) \cap DOMAIN s2.relay_from_to = {}

\* the 5-second task has just removed a relay entry and left another behind
C11_Witness ==
    /\ last.op = "do_circuits" /\ last.res = "relay removed"
    /\ relay_from_to # EmptyMap

\* ------------------------------------------------------------ claim C12
\* a destroy for circuit id circuit_id has been handed to the endpoint for dst
DestroySent(s2, dst, circuit_id) ==
    \E i \in 1..Len(s2.sent) :
        /\ s2.sent[i].type = "destroy"
        /\ s2.sent[i].dst = dst
        /\ s2.sent[i].circuit_id = circuit_id

\* C12: whenever the sweeper removes a circuit, a relay or an exit socket, a
\* destroy for that circuit is emitted: to the first hop of a circuit, to the
\* neighbour of a relay entry under the id it knows, to the previous hop of
\* an exit socket.
C12_SweeperEmitsDestroy ==
    LET s2 == do_circuits(State, TheEnv, <<>>)
    IN /\ \A c \in DOMAIN circuits \ DOMAIN s2.circuits :
              DestroySent(s2, circuits[c].first_hop, c)
       /\ \A c \in DOMAIN relay_from_to \ DOMAIN s2.relay_from_to :
              DestroySent(s2, relay_from_to[c].sock_addr, relay_from_to[c].circuit_id)
       /\ \A c \in DOMAIN exit_sockets \ DOMAIN s2.exit_sockets :
              DestroySent(s2, exit_sockets[c].sock_addr, c)

\* the 5-second task has just removed the last circuit of this node
C12_Witness ==
    /\ last.op = "do_circuits" /\ last.case = "circuit removed"
    /\ circuits = EmptyMap

\* ------------------------------------------------------------ claim C14
\* the node state with the messages of the handler that ran taken away
Quiet(s) == [s EXCEPT !.sent = <<>>]

\* the values of got_destroy_from: None, or the id with the address of a peer
GotDestroyInputs(circuit_id) == {<<>>} \cup {<<circuit_id, p>> : p \in Peers}

\* C14: remove_circuit, remove_relay and remove_exit_socket called a second
\* time for the same circuit id, right after the first call and whatever the
\* destroy flag of either call, change no state and emit no message.
C14_TeardownIdempotent ==
    \A c \in Ids, d1 \in BOOLEAN, d2 \in BOOLEAN :
        /\ LET s1 == Quiet(remove_circuit(State, c, d1))
           IN remove_circuit(s1, c, d2) = s1
        /\ LET s1 == Quiet(remove_exit_socket(State, c, d1))
           IN remove_exit_socket(s1, c, d2) = s1
        /\ \A g \in GotDestroyInputs(c), both_sides \in BOOLEAN :
               LET s1 == Quiet(remove_relay(State, c, d1, g, both_sides))
               IN remove_relay(s1, c, d2, g, both_sides) = s1

\* an own circuit and a relay exist, so that a first removal removes something
C14_Witness ==
    /\ last.op = "on_cell" /\ last.case = "extend"
    /\ DOMAIN circuits # {}
    /\ DOMAIN relay_from_to # {}

\* ------------------------------------------------------------ claim C15
\* this node relays c
Relays(c) == c > 0 /\ c \in DOMAIN relay_from_to /\ c \notin waiting_for

\* this node holds a CircuitRequestCache for c
HoldsCircuitCache(c) == c \in DOMAIN request_cache.anon_circuit

\* the created and the extended cell for circuit id c
CreatedCell(c) == Cell("created", 1, c, <<>>)
ExtendedCell(c) == Cell("extended", 1, c, <<>>)

\* the statement of C15 as the specification has it: a created or extended
\* cell for c passes its check only if this node relays c or holds a
\* CircuitRequestCache for c
C15_AcceptedOnlyIfRelayOrCache ==
    \A c \in Ids :
        /\ check_created(State, CreatedCell(c)) => Relays(c) \/ HoldsCircuitCache(c)
        /\ check_extended(State, ExtendedCell(c)) => Relays(c) \/ HoldsCircuitCache(c)

\* C15: an extended cell for c passes its check exactly when this node relays
\* c or holds a CircuitRequestCache for c; a created cell for c passes exactly
\* when that holds or c is not one of this node's own circuits; a cell that
\* does not pass is dropped without a change of state.
C15_AcceptanceCheck ==
    \A c \in Ids :
        /\ check_extended(State, ExtendedCell(c)) <=> Relays(c) \/ HoldsCircuitCache(c)
        /\ check_created(State, CreatedCell(c))
              <=> Relays(c) \/ HoldsCircuitCache(c) \/ c \notin DOMAIN circuits
        /\ ~check_extended(State, ExtendedCell(c))
              => Dispatch(State, ExtendedCell(c), TheEnv, 0) = State
        /\ ~check_created(State, CreatedCell(c))
              => Dispatch(State, CreatedCell(c), TheEnv, 0) = State

\* a created cell has been accepted for an id this node neither relays yet
\* nor built itself
C15_Witness ==
    /\ last.op = "on_cell" /\ last.case = "created"
    /\ \E c \in DOMAIN relay_from_to :
          c \notin DOMAIN circuits /\ c \notin waiting_for /\ ~HoldsCircuitCache(c)

\* ------------------- SpecExitSweep: the exit sockets of a node that is no exit
\* The node has not opted in to exit.  Peer 1 makes it the end of circuit 1 and
\* sends data through it: overlay packets, other allowed packets and forbidden
\* ones; a stranger sends data too, the destinations answer, time passes and
\* the 5-second task runs.
ExitSweepData(s) ==
    {Data(src, c, HonestLayers(s, c), dest, NullAddr, kind) :
        src \in {1, MaxPeer}, c \in DOMAIN s.exit_sockets, dest \in Destinations,
        kind \in {"dispersy", "allowed", "forbidden"}}

InitExitSweep == InitNode /\ become_exitnode = FALSE

ExitSweepOnCell == \E m \in ExitCreateCells : OnCell(m, 0)

ExitSweepOnData == \E d \in ExitSweepData(State) : OnData(d)

ExitSweepDatagram ==
    \E circuit_id \in DOMAIN exit_sockets, source \in Destinations :
        DatagramReceived(circuit_id, "allowed", source)

ExitSweepTick == Tick

ExitSweepDoCircuits == DoCircuits(<<>>)

NextExitSweep ==
    \/ ExitSweepOnCell
    \/ ExitSweepOnData
    \/ ExitSweepDatagram
    \/ ExitSweepTick
    \/ ExitSweepDoCircuits

SpecExitSweep == InitExitSweep /\ [][NextExitSweep]_vars

\* ------------------------------------------------------------ claim C13
\* an exit socket through which no byte went since it was made, more than
\* max_time_inactive ago
IdleSinceCreation(s, exit_socket) ==
    /\ exit_socket.bytes_up + exit_socket.bytes_down = 0
    /\ exit_socket.creation_time < s.now - max_time_inactive

\* the statement of C13 as the specification has it, for the exit sockets
\* that never carried a byte: after a sweeper tick no exit socket remains that
\* was idle for more than max_time_inactive, older than max_time, or had
\* bytes_up + bytes_down above max_traffic
C13_ExitSweptLikeCircuits ==
    LET s2 == do_circuits(State, TheEnv, <<>>)
    IN \A c \in DOMAIN s2.exit_sockets :
           /\ ~IdleSinceCreation(s2, s2.exit_sockets[c])
           /\ ~TooOld(s2, s2.exit_sockets[c])
           /\ ~OverTraffic(s2.exit_sockets[c])

\* C13: the sweeper applies two rules to exit sockets: after a sweeper tick
\* the exit sockets that remain are exactly those that were neither older
\* than max_time nor had bytes_up + bytes_down above max_traffic, unchanged;
\* how long an exit socket has been idle plays no part.
C13_ExitSweepRules ==
    LET s2 == do_circuits(State, TheEnv, <<>>)
    IN /\ DOMAIN s2.exit_sockets =
              {c \in DOMAIN exit_sockets :
                  ~TooOld(State, exit_sockets[c]) /\ ~OverTraffic(exit_sockets[c])}
       /\ \A c \in DOMAIN s2.exit_sockets : s2.exit_sockets[c] = exit_sockets[c]

\* a sweeper tick has taken away an exit socket
C13_Witness ==
    /\ last.op = "do_circuits" /\ last.res = "exit socket removed"
    /\ exit_sockets = EmptyMap

\* ------------------------------------------------------------ claim C18
\* destination X has answered on exit socket c
Answered(s, c, X) == c \in DOMAIN s.exit_sockets /\ Ips(s.exit_sockets[c], X) = -1

\* C18: a datagram from X that passes the abuse check of exit socket c sets
\* the counter of X to -1; once the counter is -1 it stays -1 through every
\* data packet and every datagram that follows, an allowed outbound datagram
\* to X passes the check and is sent, and none of them removes c unless it is
\* a datagram that finds another destination over its limit.
C18_AnsweredStaysOpen ==
    \A c \in DOMAIN exit_sockets, X \in Destinations :
        /\ exit_sockets[c].enabled =>
               \A kind \in {"allowed", "forbidden"} :
                   LET s2 == datagramReceived(State, c, kind, X)
                   IN CheckPasses(State, c, X, TRUE) => Answered(s2, c, X)
        /\ Answered(State, c, X) =>
              /\ CheckPasses(State, c, X, FALSE)
              /\ LET s2 == on_data(State, Outbound(c, X))
                 IN UdpTo(s2, X) /\ Answered(s2, c, X)
              /\ \A d \in ExitData(State) :
                     LET s2 == on_data(State, d)
                     IN /\ c \in DOMAIN s2.exit_sockets => Answered(s2, c, X)
                        /\ d.destination = X => c \in DOMAIN s2.exit_sockets
              /\ exit_sockets[c].enabled =>
                     \A source \in Destinations, kind \in {"allowed", "forbidden"} :
                         LET s2 == datagramReceived(State, c, kind, source)
                         IN /\ c \in DOMAIN s2.exit_sockets => Answered(s2, c, X)
                            /\ source = X => c \in DOMAIN s2.exit_sockets

\* destination 1 has answered and more datagrams went out to it than the
\* limit allows without a reply
C18_Witness ==
    /\ last.op = "on_data"
    /\ \E c \in DOMAIN exit_sockets :
          /\ Answered(State, c, 1)
          /\ Ips(exit_sockets[c], 2) = 0
          /\ exit_sockets[c].bytes_up > max_packets_without_reply * PacketLen

\* ------------------------------------------------------------ claim C19
\* a datagram leaves the node for a destination outside the overlay
UdpSent(s2) == \E i \in 1..Len(s2.sent) : s2.sent[i].type = "udp"

\* every data packet that can reach a node: from any peer, on any circuit id,
\* with the layers of the honest neighbour or none, of any kind
ExitBound(s) ==
    UNION {{Data(src, c, layers, dest, NullAddr, kind) :
               src \in Peers, layers \in LayerInputs(s, c), dest \in Destinations,
               kind \in {"dispersy", "allowed", "forbidden"}} : c \in Ids}

\* C19: on a node whose become_exitnode setting is false a data packet makes
\* a datagram leave an exit socket only if its payload could be overlay
\* traffic; a packet with any other payload leaves every exit socket as it
\* was, not enabled if it was not and with its counters unchanged.
C19_NoExitWithoutOptIn ==
    ~become_exitnode =>
        \A d \in ExitBound(State) :
            LET s2 == on_data(State, d)
            IN /\ UdpSent(s2) => could_be_dispersy(d.data)
               /\ ~could_be_dispersy(d.data) => s2.exit_sockets = exit_sockets

\* a data packet has been handled at the end of a circuit by a node that is
\* no exit, and the exit socket is not enabled
C19_Witness ==
    /\ ~become_exitnode
    /\ last.op = "on_data" /\ last.res = "local"
    /\ \E c \in DOMAIN exit_sockets :
          ~exit_sockets[c].enabled /\ exit_sockets[c].ips = EmptyMap

\* ----------------------- SpecShared: a first hop that reuses the circuit id
\* The node is an exit and builds a one-hop circuit of its own.  The first hop
\* of that circuit, or peer 1, then uses the id of the circuit for a circuit
\* of its own through this node: it sends create, data for a destination,
\* extend and destroy under that id.
SharedSenders(s) == {1} \cup {s.circuits[c].first_hop : c \in DOMAIN s.circuits}

SharedCreateCells(s) ==
    {[Cell("create", src, c, <<>>) EXCEPT !.node_public_key = MyKey] :
        src \in SharedSenders(s), c \in DOMAIN s.circuits}

SharedExtendCells(s) ==
    {[Cell("extend", src, c, HonestLayers(s, c)) EXCEPT !.node_public_key = 2] :
        src \in SharedSenders(s), c \in DOMAIN s.circuits}

SharedCells(s) == BuildCreatedCells(s) \cup SharedCreateCells(s) \cup SharedExtendCells(s)

SharedData(s) ==
    {Data(src, c, HonestLayers(s, c), 1, NullAddr, "allowed") :
        src \in SharedSenders(s), c \in DOMAIN s.exit_sockets}

InitShared == InitNode /\ become_exitnode = TRUE

SharedCreateCircuit ==
    \E rnd \in BuildIds(State) :
        /\ circuits = EmptyMap
        /\ CreateCircuit(1, CIRCUIT_TYPE_DATA, 0, None, rnd)

SharedOnCell ==
    \E m \in SharedCells(State) : \E rnd \in DrawsFor(m, FreshIds(State)) : OnCell(m, rnd)

SharedOnData == \E d \in SharedData(State) : OnData(d)

SharedDestroy ==
    \E circuit_id \in DOMAIN exit_sockets, src \in SharedSenders(State) :
        OnDestroy(circuit_id, src)

NextShared ==
    \/ SharedCreateCircuit
    \/ SharedOnCell
    \/ SharedOnData
    \/ SharedDestroy

SpecShared == InitShared /\ [][NextShared]_vars

\* ------------------------------------------------------------ claim C16
\* C16: directions[c] is defined for every circuit id c that is a key of
\* relay_from_to or of exit_sockets.
C16_DirectionsDefined ==
    \A c \in DOMAIN relay_from_to \cup DOMAIN exit_sockets : c \in DOMAIN directions

\* an extend cell has been handled for an id whose session keys were gone,
\* and has left relay entries behind
C16_Witness ==
    /\ last.op = "on_cell" /\ last.case = "extend"
    /\ \E c \in DOMAIN relay_from_to : c \notin DOMAIN relay_session_keys

\* ------------------------------------- SpecSelect: choosing a circuit
\* The application asks for data and rendezvous circuits of one and of two
\* hops, the hops answer, the first hop destroys a circuit, and the socks server asks the
\* selection strategy for a circuit again and again.
SelectCreatedCells(s) ==
    {[Cell("created", s.circuits[c].first_hop, c, <<>>)
         EXCEPT !.signer = s.circuits[c].unverified_hop, !.candidate_list = <<2>>] :
        c \in {x \in DOMAIN s.circuits : s.circuits[x].hops = <<>>}}

SelectExtendedCells(s) ==
    {[Cell("extended", s.circuits[c].first_hop, c, HonestLayers(s, c))
         EXCEPT !.key = HopKey(s, c), !.signer = s.circuits[c].unverified_hop] :
        c \in {x \in DOMAIN s.circuits : s.circuits[x].hops # <<>>}}

\* the hop counts select is asked for: None for any
HopCounts == {None} \cup 1..MaxHops

OtherPort == CIRCUIT_ID_PORT + 1

\* the destinations select is asked for
SelectDestinations ==
    {NoDestination} \cup {Destination(ip, port) : ip \in Ids, port \in {CIRCUIT_ID_PORT, OtherPort}}

\* the destinations whose port is not CIRCUIT_ID_PORT
PlainDestinations == {d \in SelectDestinations : d.port # CIRCUIT_ID_PORT}

InitSelect == InitNode /\ become_exitnode = FALSE

SelectCreateCircuit ==
    \E goal_hops \in 1..2, ctype \in {CIRCUIT_TYPE_DATA, CIRCUIT_TYPE_RENDEZVOUS},
       rnd \in FreshIds(State) :
        CreateCircuit(goal_hops, ctype, 0, None, rnd)

SelectOnCell ==
    \E m \in SelectCreatedCells(State) \cup SelectExtendedCells(State) : OnCell(m, 0)

SelectDestroy ==
    \E circuit_id \in DOMAIN circuits : OnDestroy(circuit_id, circuits[circuit_id].first_hop)

\* the socks server asks for a circuit
Select ==
    \E destination \in SelectDestinations, hops \in HopCounts :
        LET r == select(State, destination, hops)
        IN Commit(r.s, Event("select", IF hops = None THEN "any" ELSE "hops",
                             IF r.res = None THEN "none" ELSE "circuit"))

NextSelect ==
    \/ SelectCreateCircuit
    \/ SelectOnCell
    \/ SelectDestroy
    \/ Select

SpecSelect == InitSelect /\ [][NextSelect]_vars

\* ------------------------------------------------------------ claim C20
RECURSIVE Picks(_, _, _, _)
\* what k select calls in a row return, from node state s on
Picks(s, destination, hops, k) ==
    IF k = 0 THEN <<>>
    ELSE <<select(s, destination, hops).res>>
         \o Picks(select(s, destination, hops).s, destination, hops, k - 1)

\* the id that follows x in S in ascending order, the least after the greatest
Following(S, x) ==
    IF \E y \in S : y > x
    THEN CHOOSE y \in S : y > x /\ \A z \in S : z > x => y <= z
    ELSE CHOOSE y \in S : \A z \in S : y <= z

CircuitDestinations == {d \in SelectDestinations : d.port = CIRCUIT_ID_PORT}

\* the circuit whose id is derived from the address exists, is READY and has
\* type RENDEZVOUS
ReadyRendezvous(s, destination) ==
    LET circuit_id == ip_to_circuit_id(destination.ip)
    IN /\ circuit_id \in DOMAIN s.circuits
       /\ CircuitState(s.circuits[circuit_id]) = CIRCUIT_STATE_READY
       /\ s.circuits[circuit_id].ctype = CIRCUIT_TYPE_RENDEZVOUS

\* C21 as stated: when destination.port is CIRCUIT_ID_PORT, select returns the
\* circuit whose id is derived from destination.addr if and only if that
\* circuit exists, is READY and has type RENDEZVOUS.
C21_DerivedIffRendezvous ==
    \A destination \in CircuitDestinations, hops \in HopCounts :
        (select(State, destination, hops).res = ip_to_circuit_id(destination.ip))
            <=> ReadyRendezvous(State, destination)

\* C21: when destination.port is CIRCUIT_ID_PORT and the circuit whose id is
\* derived from destination.addr exists, is READY and has type RENDEZVOUS,
\* select returns that circuit and leaves the round-robin index alone;
\* otherwise select goes on to the round robin over the READY DATA circuits
\* of the requested hop count, exactly as for a destination with another
\* port, and returns the derived circuit only if the round robin arrives at
\* it.
C21_PinnedToRendezvous ==
    \A destination \in CircuitDestinations, hops \in HopCounts :
        LET r == select(State, destination, hops)
            plain == select(State, Destination(destination.ip, OtherPort), hops)
        IN /\ ReadyRendezvous(State, destination) =>
                 /\ r.res = ip_to_circuit_id(destination.ip)
                 /\ r.s = State
           /\ ~ReadyRendezvous(State, destination) =>
                 /\ r = plain
                 /\ r.res \in active_data_circuits(State, hops) \cup {None}

\* select has been asked for the address of a READY RENDEZVOUS circuit while
\* a READY DATA circuit was there to choose as well
C21_Witness ==
    /\ last.op = "select" /\ last.res = "circuit"
    /\ \E destination \in CircuitDestinations : ReadyRendezvous(State, destination)
    /\ active_data_circuits(State, None) # {}

\* ------------------------------------------ SpecStats: the byte totals
\* The node is an exit.  It builds a one-hop circuit of its own, peer 1 makes
\* it the end of circuit 1, sends data through it and has it extended to peer
\* 2, packets travel on every circuit, the destination answers, circuits are
\* destroyed and the 5-second task removes those that carried too much.  The
\* totals in stats and the history of what left the tables are followed.
StatsCells(s) == RelaySweepCells(s) \cup SweepCreatedCells(s) \cup SweepPingCells(s)

StatsData(s) ==
    {Data(1, c, HonestLayers(s, c), 1, NullAddr, "allowed") : c \in DOMAIN s.exit_sockets}

\* the six totals of the model together stay within MaxStats
StatsWithin(s) ==
    s.stats.bytes_up + s.stats.bytes_down + s.stats.bytes_relay_up
        + s.stats.bytes_relay_down + s.stats.bytes_exit + s.stats.bytes_enter <= MaxStats

StatsStep(s2, ev) == WithinBounds(s2) /\ StatsWithin(s2) /\ CommitAll(s2, ev)

InitStats == InitNode /\ become_exitnode = TRUE

StatsCreateCircuit ==
    /\ circuits = EmptyMap
    /\ StatsStep(create_circuit(State, 1, CIRCUIT_TYPE_DATA, 0, None,
                                TheEnv.cands, TheEnv.connectable, MaxId),
                 Event("create_circuit", CIRCUIT_TYPE_DATA, ""))

StatsOnCell ==
    \E m \in StatsCells(State) :
        LET r == on_cell_route(State, m, TheEnv, 0)
        IN StatsStep(r.s, Event("on_cell", CellCase(State, m), r.res))

StatsOnData ==
    \E d \in StatsData(State) :
        LET r == on_data_route(State, d)
        IN StatsStep(r.s, Event("on_data", "data", r.res))

StatsDatagram ==
    \E circuit_id \in DOMAIN exit_sockets :
        /\ exit_sockets[circuit_id].enabled
        /\ StatsStep(datagramReceived(State, circuit_id, "allowed", 1),
                     Event("datagramReceived", "data", ""))

StatsDestroy ==
    \E circuit_id \in Ids, src \in Peers :
        StatsStep(on_destroy(State, circuit_id, src),
                  Event("on_destroy", DestroyCase(State, circuit_id, src), ""))

StatsDoCircuits ==
    StatsStep(do_circuits(State, TheEnv, <<>>), Event("do_circuits", "", ""))

NextStats ==
    \/ StatsCreateCircuit
    \/ StatsOnCell
    \/ StatsOnData
    \/ StatsDatagram
    \/ StatsDestroy
    \/ StatsDoCircuits

SpecStats == InitStats /\ [][NextStats]_vars

\* ------------------------------------------------------------ claim C17
RECURSIVE SumUp(_, _)
RECURSIVE SumDown(_, _)
\* the sums of bytes_up and of bytes_down over the objects of a table
SumUp(table, ids) ==
    IF ids = {} THEN 0
    ELSE LET c == CHOOSE x \in ids : TRUE
         IN table[c].bytes_up + SumUp(table, ids \ {c})
SumDown(table, ids) ==
    IF ids = {} THEN 0
    ELSE LET c == CHOOSE x \in ids : TRUE
         IN table[c].bytes_down + SumDown(table, ids \ {c})

\* C17: each of the six totals in stats is the sum of the matching byte
\* counter over the circuits, the relay routes or the exit sockets that
\* exist, plus what that counter was, when it left its table, for each of
\* those that existed earlier.
C17_StatsAreSums ==
    /\ stats.bytes_up = SumUp(circuits, DOMAIN circuits) + flushed.bytes_up
    /\ stats.bytes_down = SumDown(circuits, DOMAIN circuits) + flushed.bytes_down
    /\ stats.bytes_relay_up =
           SumUp(relay_from_to, DOMAIN relay_from_to) + flushed.bytes_relay_up
    /\ stats.bytes_relay_down =
           SumDown(relay_from_to, DOMAIN relay_from_to) + flushed.bytes_relay_down
    /\ stats.bytes_exit = SumUp(exit_sockets, DOMAIN exit_sockets) + flushed.bytes_exit
    /\ stats.bytes_enter =
           SumDown(exit_sockets, DOMAIN exit_sockets) + flushed.bytes_enter

\* bytes went through a relay route and through an exit socket that are gone,
\* and through an own circuit that is there
C17_Witness ==
    /\ flushed.bytes_relay_down > 0
    /\ flushed.bytes_exit > 0
    /\ stats.bytes_down > flushed.bytes_down

\* --------------------------------------------- SpecPing: keeping alive
\* The node builds a one-hop data circuit, the hop answers, do_ping pings the
\* circuit once it is READY, pongs come back with identifiers that are
\* pending and with identifiers that are not, the hop destroys the circuit,
\* the node builds the next one under the same id, time passes and the ping
\* caches time out.
\* the identifiers a ping cache may draw, and the id every circuit draws
PingNumbers == 1..2
PingIds == {1}

PongCells(s) ==
    {[Cell("pong", s.circuits[c].first_hop, c, HonestLayers(s, c)) EXCEPT !.identifier = n] :
        c \in DOMAIN s.circuits, n \in PingNumbers}

\* the circuits do_ping pings
Pinged(s) ==
    {c \in DOMAIN s.circuits :
        /\ CircuitState(s.circuits[c]) = CIRCUIT_STATE_READY
        /\ s.circuits[c].ctype # CIRCUIT_TYPE_RENDEZVOUS}

\* the identifiers RandomNumberCache may draw for k new caches in a row
PingDraws(s, k) ==
    {numbers \in [1..k -> PingNumbers \ DOMAIN s.request_cache.ping] :
        \A i, j \in 1..k : i # j => numbers[i] # numbers[j]}

InitPing == InitNode /\ become_exitnode = FALSE

PingCreateCircuit ==
    \E rnd \in PingIds \ DOMAIN circuits :
        CreateCircuit(1, CIRCUIT_TYPE_DATA, 0, None, rnd)

PingOnCell ==
    \E m \in SelectCreatedCells(State) \cup PongCells(State) : OnCell(m, 0)

DoPing ==
    /\ Pinged(State) # {}
    /\ \E numbers \in PingDraws(State, Cardinality(Pinged(State))) :
          LET s2 == do_ping(State, numbers)
          IN WithinBounds(s2) /\ Commit(s2, Event("do_ping", "", ""))

\* the timeout of a ping cache, at or after the time it is due
PingTimeout ==
    \E number \in DOMAIN request_cache.ping :
        /\ now >= request_cache.ping[number].due
        /\ LET s2 == PingCacheTimeout(State, number)
           IN Commit(s2, Event("ping_timeout",
                               IF request_cache.ping[number].gone THEN "gone" ELSE "live",
                               IF s2.circuits = circuits THEN "kept" ELSE "removed"))

PingDestroy ==
    \E circuit_id \in DOMAIN circuits : OnDestroy(circuit_id, circuits[circuit_id].first_hop)

NextPing ==
    \/ PingCreateCircuit
    \/ PingOnCell
    \/ DoPing
    \/ PingTimeout
    \/ PingDestroy
    \/ Tick

SpecPing == InitPing /\ [][NextPing]_vars

\* ------------------------------------------------------------ claim C22
\* the ping caches whose circuit is still in circuits
LivePings(s) == {n \in DOMAIN s.request_cache.ping : ~s.request_cache.ping[n].gone}

\* the pong that answers the pending ping number
MatchingPong(s, number) ==
    LET c == s.request_cache.ping[number].circuit_id
    IN [Cell("pong", s.circuits[c].first_hop, c, HonestLayers(s, c))
           EXCEPT !.identifier = number]

\* C22: when the PingRequestCache of a circuit times out, no pong with its
\* identifier having come, the circuit is removed if and only if its
\* last_incoming is more than PING_INTERVAL + 5 seconds old at that moment;
\* a pong with the identifier of a pending ping takes the cache away and
\* leaves the circuit in place, so that this ping never times out.
C22_PingTimeout ==
    \A number \in LivePings(State) :
        LET c == request_cache.ping[number].circuit_id
            expired == PingCacheTimeout(State, number)
            answered == on_cell(State, MatchingPong(State, number), TheEnv, 0)
        IN /\ c \in DOMAIN circuits
           /\ (c \notin DOMAIN expired.circuits)
                 <=> (now - circuits[c].last_incoming > PING_INTERVAL + PingGrace)
           /\ number \notin DOMAIN expired.request_cache.ping
           /\ number \notin DOMAIN answered.request_cache.ping
           /\ c \in DOMAIN answered.circuits

\* a ping cache has timed out and has taken its circuit away
C22_Witness ==
    /\ last.op = "ping_timeout" /\ last.case = "live" /\ last.res = "removed"

\* ------------------------------------------------------------ claim C23
\* the CircuitRequestCache entries whose circuit has been removed from
\* circuits
CachesOfRemoved(s) ==
    {number \in DOMAIN s.request_cache.anon_circuit :
        s.request_cache.anon_circuit[number].broken}

\* C23: once a circuit has been removed from circuits, the later expiry of
\* its CircuitRequestCache is a no-op: it starts no new create_circuit
\* attempt, emits no message and changes no state, the cache entry that
\* expires apart.
C23_ExpiryAfterRemovalIsNoOp ==
    \A number \in CachesOfRemoved(State), rnd \in BuildIds(State) :
        CircuitCacheTimeout(State, number, TheEnv, rnd)
            = CachePop(State, "anon_circuit", number)

\* the circuit of a pending CircuitRequestCache has been removed and no
\* circuit is left
C23_Witness ==
    /\ CachesOfRemoved(State) # {}
    /\ circuits = EmptyMap

\* ------------------------------------------------------------ claim C24
\* the node accepted create for c and has not been asked to extend c yet
AcceptedCreate(s, c) ==
    /\ c \in DOMAIN s.exit_sockets
    /\ CacheHas(s, "anon_created", c)
    /\ c \in DOMAIN s.relay_session_keys

\* the extend cells for c that on_cell hands to on_extend
AcceptedExtends(s, c) ==
    {m \in IdsExtendCells(s) :
        /\ m.circuit_id = c
        /\ on_cell_route(s, m, TheEnv, 0).res = "local"
        /\ check_extend(s, m)}

\* what the claim says of the state s2 an extend m for c leaves, n being
\* the id allocated for the next neighbour
Extended(s2, m, n) ==
    LET c == m.circuit_id
    IN /\ c \notin DOMAIN s2.exit_sockets
       /\ c \in DOMAIN s2.relay_from_to
       /\ s2.relay_from_to[c].circuit_id = n
       /\ s2.relay_from_to[c].sock_addr = m.node_public_key
       /\ n \in DOMAIN s2.relay_from_to
       /\ s2.relay_from_to[n].circuit_id = c
       /\ s2.relay_from_to[n].sock_addr = m.src
       /\ n \in s2.waiting_for
       /\ c \in DOMAIN s2.directions /\ s2.directions[c] = EXIT_NODE
       /\ n \in DOMAIN s2.directions /\ s2.directions[n] = ORIGINATOR
       /\ \E i \in DOMAIN s2.sent :
             /\ s2.sent[i].type = "create"
             /\ s2.sent[i].circuit_id = n
             /\ s2.sent[i].dst = m.node_public_key

\* C24: after a node that accepted create for c handles an accepted extend
\* for c, c is no longer a key of exit_sockets, relay_from_to[c] holds the
\* freshly allocated id n and the address of the next neighbour,
\* relay_from_to[n] holds c and the address of the previous hop, n is in
\* waiting_for, directions[c] is EXIT_NODE and directions[n] is ORIGINATOR,
\* and a create carrying n has been sent to the next neighbour.
C24_ExtendInstallsRelay ==
    \A c \in Ids :
        AcceptedCreate(State, c) =>
            \A m \in AcceptedExtends(State, c) :
                \A n \in _generate_circuit_id(State, ExtendCandidate(
                                request_cache.anon_created[c], m)) :
                    Extended(on_cell(State, m, TheEnv, n), m, n)

\* an extend has been handled for which the allocator returned the id the
\* circuit already has on the side of the previous hop
C24_Witness ==
    /\ last.op = "on_cell" /\ last.case = "extend"
    /\ \E c \in DOMAIN relay_from_to : relay_from_to[c].circuit_id = c

\* ------------------------------------------------------------ claim C25
\* c and n are the two entries of a relayed circuit: each names the other
RelayPair(s, c, n) ==
    /\ c \in DOMAIN s.relay_from_to /\ n \in DOMAIN s.relay_from_to
    /\ c # n
    /\ s.relay_from_to[c].circuit_id = n
    /\ s.relay_from_to[n].circuit_id = c

\* the destroy messages among those sent
Destroys(s) == {i \in DOMAIN s.sent : s.sent[i].type = "destroy"}

\* C25: when a relay receives a destroy for c from the neighbour registered
\* for c, it emits exactly one destroy, addressed to the neighbour on the
\* other side and carrying the mirror circuit id n, sends none back to the
\* sender, and deletes both relay_from_to entries of the pair and their
\* relay_session_keys entries.
C25_DestroyForwardedOnce ==
    \A c, n \in Ids :
        RelayPair(State, c, n) =>
            LET s2 == on_destroy(State, c, relay_from_to[n].sock_addr)
            IN /\ Cardinality(Destroys(s2)) = 1
               /\ \A i \in Destroys(s2) :
                     /\ s2.sent[i].dst = relay_from_to[c].sock_addr
                     /\ s2.sent[i].circuit_id = n
               /\ c \notin DOMAIN s2.relay_from_to
               /\ n \notin DOMAIN s2.relay_from_to
               /\ c \notin DOMAIN s2.relay_session_keys
               /\ n \notin DOMAIN s2.relay_session_keys

\* a destroy from a registered neighbour has taken a relayed circuit away
C25_Witness ==
    /\ last.op = "on_destroy" /\ last.case = "relay"
    /\ relay_from_to = EmptyMap

\* ------------------------------------------------------------ claim C26
\* the hops the extend cells among the sent messages are addressed to
ExtendsTo(s2) == {s2.sent[i].arg : i \in {j \in DOMAIN s2.sent : s2.sent[j].type = "extend"}}

\* the replies of the hops of own circuits that can arrive now
BuildReplies(s) == BuildCreatedCells(s) \cup BuildExtendedCells(s)

\* C26: every circuit with a required endpoint that reaches READY has the
\* public key of that endpoint as its last hop: for goal_hops = 1 the first
\* hop is the required endpoint, and for goal_hops > 1 the extend for the
\* last hop is addressed to the required endpoint while every earlier extend
\* is addressed to the head of the filtered candidate list.
C26_EndpointIsLastHop ==
    /\ \A c \in DOMAIN circuits :
          circuits[c].required_endpoint # None =>
              /\ circuits[c].goal_hops = 1 =>
                     circuits[c].first_hop = circuits[c].required_endpoint
              /\ CircuitState(circuits[c]) = CIRCUIT_STATE_READY =>
                     circuits[c].hops[Len(circuits[c].hops)].public_key
                         = circuits[c].required_endpoint
    /\ \A m \in BuildReplies(State) :
          LET s2 == on_cell(State, m, TheEnv, 0)
              c == m.circuit_id
          IN (c \in DOMAIN circuits /\ circuits[c].required_endpoint # None) =>
                \A pub_key \in ExtendsTo(s2) :
                    /\ c \in DOMAIN s2.circuits
                    /\ pub_key =
                          IF Len(s2.circuits[c].hops) = circuits[c].goal_hops - 1
                          THEN circuits[c].required_endpoint
                          ELSE Head(FilteredCandidates(s2.circuits[c], m.candidate_list))

\* a circuit of three hops has become READY: its second hop came from a
\* candidate list, its third is the required endpoint
C26_Witness ==
    /\ last.op = "on_cell" /\ last.case = "extended"
    /\ \E c \in DOMAIN circuits :
          /\ circuits[c].goal_hops = 3
          /\ CircuitState(circuits[c]) = CIRCUIT_STATE_READY
          /\ circuits[c].required_endpoint # None

\* ------------------------------------------------------------ claim C27
\* the circuit types that are not DATA
LinkTypes == {CIRCUIT_TYPE_RP, CIRCUIT_TYPE_RENDEZVOUS}

\* C27: for the circuit types RP and RENDEZVOUS with no pinned endpoint,
\* create_circuit takes the first connectable verified candidate as required
\* endpoint, and when no verified candidate is connectable it returns
\* failure without creating a circuit, without marking waiting_for and
\* without emitting create.
C27_ConnectableEndpointOrFailure ==
    \A ctype \in LinkTypes, goal_hops \in 1..2, connectable \in SUBSET Peers,
       rnd \in FreshIds(State) :
        LET s2 == create_circuit(State, goal_hops, ctype, 0, None,
                                 TheEnv.cands, connectable, rnd)
            first == FirstWith(TheEnv.cands, 1, connectable)
        IN /\ (first # None /\ rnd \in DOMAIN s2.circuits) =>
                 s2.circuits[rnd].required_endpoint = first
           /\ first = None =>
                 /\ CreateFails(State, goal_hops, ctype, None, TheEnv.cands, connectable)
                 /\ s2.circuits = circuits
                 /\ s2.waiting_for = waiting_for
                 /\ "create" \notin SentTypes(s2)

\* a RENDEZVOUS circuit has been created with no endpoint given
C27_Witness ==
    /\ last.op = "create_circuit" /\ last.case = CIRCUIT_TYPE_RENDEZVOUS
    /\ last.res = "created"

\* ------------------------------------------------------------ claim C28
\* the keys the next hop must not have: those of the hops of the circuit,
\* this node's own and the required endpoint
Excluded(circuit) == SeqToSet(IgnoreCandidates(circuit))

\* nothing of candidate_list is left once these keys and the incompatible
\* ones are filtered out
NothingLeft(circuit, candidate_list) ==
    \A i \in DOMAIN candidate_list :
        candidate_list[i] \in Excluded(circuit) \/ ~is_key_compatible(candidate_list[i])

\* the replies that make circuit c look for its next hop in the candidate
\* list they carry
ListReplies(s, c) ==
    {m \in BuildReplies(s) :
        /\ m.circuit_id = c /\ m.cl_ok
        /\ on_cell_route(s, m, TheEnv, 0).res = "local"
        /\ IF m.type = "created" THEN check_created(s, m) /\ c \in s.waiting_for
           ELSE check_extended(s, m)
        /\ s.circuits[c].unverified_hop # None
        /\ VerifyShared(s.circuits[c], m)
        /\ CircuitState(AddHop(s.circuits[c], m)) = CIRCUIT_STATE_EXTENDING
        /\ ~(BecomeExit(AddHop(s.circuits[c], m)) /\ s.circuits[c].required_endpoint # None)}

\* C28: during EXTENDING, when the next hop has to be taken from the
\* candidate list the newest hop returned and nothing of that list is left
\* after filtering out the keys already in the circuit, this node's own key,
\* the required endpoint and the key-incompatible entries, the circuit is
\* removed from circuits and no extend is sent.
C28_NoCandidateRemovesCircuit ==
    \A c \in DOMAIN circuits :
        \A m \in ListReplies(State, c) :
            NothingLeft(AddHop(circuits[c], m), m.candidate_list) =>
                LET s2 == on_cell(State, m, TheEnv, 0)
                IN c \notin DOMAIN s2.circuits /\ "extend" \notin SentTypes(s2)

\* a circuit waits for a hop that is already one of its hops
C28_Witness ==
    \E c \in DOMAIN circuits :
        \E i \in DOMAIN circuits[c].hops :
            circuits[c].hops[i].public_key = circuits[c].unverified_hop

\* ------------------------------------------------------------ claim C29
\* the pings that can arrive now and that on_cell hands to on_ping
LocalPings(s) ==
    {m \in {[p EXCEPT !.identifier = n] : p \in RelayPingCells(s), n \in PingNumbers} :
        /\ on_cell_route(s, m, TheEnv, 0).res = "local"
        /\ CellIn(s, m).content = <<>>}

\* the pong messages among those sent
Pongs(s2) == {s2.sent[i] : i \in {j \in DOMAIN s2.sent : s2.sent[j].type = "pong"}}

\* C29: a node answers a locally delivered ping(c, identifier) with
\* pong(c, identifier), carrying the same circuit id and identifier, exactly
\* when it holds an exit socket for c; a node that holds no exit socket for
\* c sends no pong for c.
C29_PongOnlyFromFinalHop ==
    \A m \in LocalPings(State) :
        LET s2 == on_cell(State, m, TheEnv, 0)
        IN /\ \A pong \in Pongs(s2) :
                 pong.circuit_id = m.circuit_id /\ pong.arg = m.identifier
           /\ (Pongs(s2) # {}) <=> (m.circuit_id \in DOMAIN exit_sockets)

\* a ping has been handled for a circuit id that has no exit socket, while
\* the node holds an exit socket for another circuit
C29_Witness ==
    /\ last.op = "on_cell" /\ last.case = "ping" /\ last.res = "local"
    /\ exit_sockets # EmptyMap
    /\ \E c \in DOMAIN relay_session_keys : c \notin DOMAIN exit_sockets

\* ------------------------------------------------------------ claim C30
\* what a step may do to the hops of circuit c: nothing, or, while the
\* circuit is EXTENDING and the step handles a created or extended cell, add
\* the hop whose handshake was pending at the end
HopStep(c) ==
    \/ circuits'[c].hops = circuits[c].hops
    \/ /\ CircuitState(circuits[c]) = CIRCUIT_STATE_EXTENDING
       /\ Len(circuits'[c].hops) = Len(circuits[c].hops) + 1
       /\ SubSeq(circuits'[c].hops, 1, Len(circuits[c].hops)) = circuits[c].hops
       /\ circuits'[c].hops[Len(circuits'[c].hops)].public_key = circuits[c].unverified_hop
       /\ last'.op = "on_cell" /\ last'.case \in {"created", "extended"}

\* C30: for every circuit, each step either leaves its list of verified
\* hops unchanged or appends exactly one hop to it, and only in response to
\* a created or extended cell that completes the pending handshake; once
\* the circuit is READY no operation changes its hop list.
C30_HopsAppendOnly ==
    [][\A c \in DOMAIN circuits \cap DOMAIN circuits' : HopStep(c)]_vars

\* an extended cell has added the second hop of a circuit that needs a third
C30_Witness ==
    /\ last.op = "on_cell" /\ last.case = "extended"
    /\ \E c \in DOMAIN circuits :
          /\ Len(circuits[c].hops) = 2
          /\ CircuitState(circuits[c]) = CIRCUIT_STATE_EXTENDING

\* ------------------------------------- SpecLive: timers that do fire
\* The application asks for one data circuit at a time, with a retry or
\* without, and only once the request cache is empty; replies come or are
\* lost; every CircuitRequestCache times out sooner or later.
LiveIds == Ids \ {0}

LiveCreateCircuit ==
    \E goal_hops \in 1..2, max_retries \in 0..1, rnd \in LiveIds :
        /\ circuits = EmptyMap
        /\ request_cache.anon_circuit = EmptyMap
        /\ CreateCircuit(goal_hops, CIRCUIT_TYPE_DATA, max_retries, None, rnd)

LiveOnCell == \E m \in BuildReplies(State) : OnCell(m, 0)

\* the timeout of the CircuitRequestCache number; the event tells whether a
\* circuit was removed.  The 32-bit draw of a retry is taken not to hit the
\* number of the cache that is expiring.
LiveTimeout(number) ==
    /\ number \in DOMAIN request_cache.anon_circuit
    /\ \E rnd \in LiveIds \ {number} :
          \E s2 \in {CircuitCacheTimeout(State, number, TheEnv, rnd)} :
             /\ WithinBounds(s2)
             /\ Commit(s2, Event("timeout", "anon-circuit",
                                 IF number \in DOMAIN circuits /\ CircuitCacheStale(State, number)
                                 THEN "removed" ELSE ""))

LiveTimeouts == \E number \in LiveIds : LiveTimeout(number)

NextLive ==
    \/ LiveCreateCircuit
    \/ LiveOnCell
    \/ LiveTimeouts

InitLive == InitNode /\ become_exitnode = FALSE

SpecLive ==
    /\ InitLive
    /\ [][NextLive]_vars
    /\ WF_vars(LiveTimeouts)

C32_RelaysHaveSessionKeys ==
    \A c \in DOMAIN relay_from_to :
        LET n == relay_from_to[c].circuit_id
        IN /\ c \in DOMAIN relay_session_keys
           /\ n \in DOMAIN relay_session_keys
           /\ relay_session_keys[c] = relay_session_keys[n]

\* an extend has just been accepted for a circuit whose exit socket was
\* enabled
C32_Witness ==
    /\ last.op = "on_cell" /\ last.case = "extend"
    /\ \E c \in DOMAIN relay_from_to :
          /\ c \notin DOMAIN relay_session_keys
          /\ relay_from_to[c].circuit_id \in DOMAIN relay_session_keys

\* ------------------------------------------------------------ claim C33
\* C33: the relay entries and the exit sockets together never number more
\* than max_relays_or_exits.
C33_RelaysAndExitsCapped ==
    Cardinality(DOMAIN relay_from_to) + Cardinality(DOMAIN exit_sockets)
        <= max_relays_or_exits

\* an accepted extend has taken the node over the cap
C33_Witness ==
    /\ last.op = "on_cell" /\ last.case = "extend"
    /\ Cardinality(DOMAIN relay_from_to) + Cardinality(DOMAIN exit_sockets)
           > max_relays_or_exits

\* ------------------------------------------------------------ claim C34
\* C34: every id in waiting_for is the id of an own circuit or a key of
\* relay_from_to.
C34_WaitingForIsLive ==
    waiting_for \subseteq DOMAIN circuits \cup DOMAIN relay_from_to

\* a removal has left the id of what it removed in waiting_for
C34_Witness ==
    /\ last.op = "on_destroy"
    /\ waiting_for \ (DOMAIN circuits \cup DOMAIN relay_from_to) # {}

\* ---------------------------------- SpecPace: circuits built by the pacing
\* tunnels_ready asks for data circuits of one hop; every circuit is made by
\* do_circuits; replies come or are lost.  One circuit more than
\* settings.max_circuits fits.
PaceBounds(s) ==
    /\ s.drawn
    /\ Cardinality(DOMAIN s.circuits) <= max_circuits + 1
    /\ \A c \in DOMAIN s.circuits :
          s.circuits[c].bytes_up <= MaxBytes /\ s.circuits[c].bytes_down <= MaxBytes

\* the ids the random generator hands out during one do_circuits
PaceDraws ==
    {<<>>} \cup {<<a>> : a \in Ids}
           \cup {<<a, b>> : a \in Ids, b \in Ids}

PaceTunnelsReady ==
    /\ 1 \notin DOMAIN circuits_needed
    /\ Commit(tunnels_ready(State, 1), Event("tunnels_ready", "", ""))

PaceDoCircuits ==
    \E rnds \in PaceDraws :
        LET s2 == do_circuits(State, TheEnv, rnds)
        IN /\ PaceBounds(s2)
           /\ Commit(s2, Event("do_circuits",
                               IF DOMAIN s2.circuits \subseteq DOMAIN circuits
                               THEN "" ELSE "built", ""))

PaceOnCell ==
    \E m \in BuildReplies(State) :
        LET r == on_cell_route(State, m, TheEnv, 0)
        IN /\ PaceBounds(r.s)
           /\ Commit(r.s, Event("on_cell", CellCase(State, m), r.res))

NextPace ==
    \/ PaceTunnelsReady
    \/ PaceDoCircuits
    \/ PaceOnCell

InitPace == InitNode /\ become_exitnode = FALSE

SpecPace == InitPace /\ [][NextPace]_vars

\* ------------------------------------------------------------ claim C35
\* the data circuits whose goal is h hops, READY or still EXTENDING
GoalCircuits(h) ==
    {c \in DOMAIN circuits :
        circuits[c].ctype = CIRCUIT_TYPE_DATA /\ circuits[c].goal_hops = h}

\* C35: after any number of runs of do_circuits, the data circuits whose goal
\* hop count is h, READY or EXTENDING, number at most circuits_needed[h].
C35_NoMoreThanNeeded ==
    \A h \in DOMAIN circuits_needed :
        Cardinality(GoalCircuits(h)) <= circuits_needed[h]

\* do_circuits has built a circuit beyond the number asked for
C35_Witness ==
    /\ last.op = "do_circuits" /\ last.case = "built"
    /\ \E h \in DOMAIN circuits_needed :
          Cardinality(GoalCircuits(h)) > circuits_needed[h]

\* ------------------------------------------------------------ claim C36
\* C36: every counter of every exit socket lies in
\* -1..max_packets_without_reply, and no datagram that arrives from outside
\* at the port of an exit socket removes the socket.
C36_CounterInRange ==
    \A c \in DOMAIN exit_sockets :
        /\ \A ip \in DOMAIN exit_sockets[c].ips :
              exit_sockets[c].ips[ip] \in -1..max_packets_without_reply
        /\ exit_sockets[c].enabled =>
              \A source \in Destinations, data \in {"allowed", "forbidden"} :
                  c \in DOMAIN datagramReceived(State, c, data, source).exit_sockets

\* a datagram has just arrived at a socket that has one address at the cap
\* and one that has answered
C36_Witness ==
    /\ last.op = "datagramReceived"
    /\ \E c \in DOMAIN exit_sockets :
          \E ip, other \in DOMAIN exit_sockets[c].ips :
              /\ exit_sockets[c].ips[ip] = max_packets_without_reply
              /\ exit_sockets[c].ips[other] = -1

\* ------------------------------------------------------------ claim C37
\* the ids this node serves or has given to a circuit of its own
Served == DOMAIN exit_sockets \cup DOMAIN relay_from_to \cup DOMAIN circuits

\* tables f and g agree at c
SameAt(f, g, c) ==
    /\ (c \in DOMAIN f) = (c \in DOMAIN g)
    /\ c \in DOMAIN f => f[c] = g[c]

\* every create a peer can send for circuit id c
CreatesFor(c) ==
    {[Cell("create", src, c, <<>>) EXCEPT !.node_public_key = MyKey, !.key = key] :
        src \in Peers, key \in Keys}

\* C37: a create for an id this node serves, or for the id of one of its own
\* circuits, leaves the exit socket, the relay entries, the session keys and
\* the direction of that id as they are, with or without a CreatedRequestCache
\* for the id.
C37_CreateForServedIdChangesNothing ==
    \A c \in Served : \A m \in CreatesFor(c) :
        LET s2 == on_create(State, m, TheEnv)
        IN /\ SameAt(s2.exit_sockets, exit_sockets, c)
           /\ s2.relay_from_to = relay_from_to
           /\ SameAt(s2.relay_session_keys, relay_session_keys, c)
           /\ SameAt(s2.directions, directions, c)

\* the CreatedRequestCache of an exit socket has just expired and the node
\* has room for a create
C37_Witness ==
    /\ last.op = "timeout" /\ last.case = "anon-created"
    /\ ~TooManyRelays(State)
    /\ \E c \in DOMAIN exit_sockets : ~CacheHas(State, "anon_created", c)

\* ------------------------------------------------------------ claim C38
\* every data packet a peer can send on circuit id c: with the layers of the
\* circuit or with none, for this node or for a destination, from an origin
\* or from the null address
DataFor(c) ==
    {Data(src, c, l, destination, origin, kind) :
        src \in Peers, l \in LayerInputs(State, c), destination \in {NullAddr, 1},
        origin \in {NullAddr, 1}, kind \in {"allowed", "dispersy"}}

\* the packet was handed to the SOCKS5 server or to the overlay
Delivered(s2) ==
    \E i \in 1..Len(s2.sent) : s2.sent[i].type \in {"to_dispersy", "to_socks"}

\* a packet from the first hop of c is delivered whatever its origin
FromFirstHopOnly(c, d) ==
    LET s2 == on_data(State, d)
    IN /\ Delivered(s2) => d.src = circuits[c].first_hop
       /\ d.src # circuits[c].first_hop =>
              /\ ~Delivered(s2)
              /\ c \in DOMAIN s2.circuits /\ s2.circuits[c] = circuits[c]

\* C38: a data packet on an own circuit is delivered to the application only
\* if it came from the first hop of the circuit and carries an origin that
\* is not the null address; from any other sender it is not delivered and
\* leaves last_incoming and the byte counters of the circuit as they are.
C38_DeliveredOnlyFromFirstHop ==
    \A c \in DOMAIN circuits : \A d \in DataFor(c) :
        /\ FromFirstHopOnly(c, d)
        /\ Delivered(on_data(State, d)) => d.origin # NullAddr

\* a READY circuit whose first hop can send it a packet with the null origin
\* that is delivered
C38_Witness ==
    \E c \in DOMAIN circuits :
        /\ CircuitState(circuits[c]) = CIRCUIT_STATE_READY
        /\ circuits[c].last_incoming < now
        /\ \E d \in DataFor(c) :
              d.origin = NullAddr /\ Delivered(on_data(State, d))

\* ------------------------------ SpecRetry: one call and its chain of retries
\* The application calls create_circuit once, with max_retries up to
\* MaxRetries.  At every attempt the walk has found candidates or none;
\* replies come or are lost; caches time out and registered retries fire.
\* The event counts the calls of create_circuit made so far and keeps the
\* max_retries of the first one.
MaxRetries == 2

NoCandidates == [cands |-> <<>>, connectable |-> {}]
RetryEnvs == {TheEnv, NoCandidates}

Attempts == IF "attempts" \in DOMAIN last THEN last.attempts ELSE 0
FirstMaxRetries == IF "max_retries" \in DOMAIN last THEN last.max_retries ELSE 0

RetryEvent(op, attempts, max_retries) ==
    [op |-> op, case |-> "", res |-> "", attempts |-> attempts, max_retries |-> max_retries]

\* a step is taken while the count is within what the model follows
RetryStep(s2, op, attempts, max_retries) ==
    /\ attempts <= MaxRetries + 2
    /\ WithinBounds(s2)
    /\ Commit(s2, RetryEvent(op, attempts, max_retries))

RetryCreateCircuit ==
    /\ Attempts = 0
    /\ \E goal_hops \in 1..2, max_retries \in 0..MaxRetries, env \in RetryEnvs, rnd \in LiveIds :
          RetryStep(create_circuit(State, goal_hops, CIRCUIT_TYPE_DATA, max_retries, None,
                                   env.cands, env.connectable, rnd),
                    "create_circuit", 1, max_retries)

\* reactor.callLater(5, retry_lambda) fires
RetryFires ==
    /\ retry_tasks # <<>>
    /\ \E env \in RetryEnvs, rnd \in LiveIds :
          RetryStep(RetryFire(State, env, rnd), "retry", Attempts + 1, FirstMaxRetries)

\* a CircuitRequestCache times out; on_timeout calls the retry where it
\* removes the circuit
RetryTimeout ==
    \E number \in DOMAIN request_cache.anon_circuit, env \in RetryEnvs, rnd \in LiveIds :
        RetryStep(CircuitCacheTimeout(State, number, env, rnd), "timeout",
                  IF /\ CircuitCacheStale(State, number)
                     /\ request_cache.anon_circuit[number].retry_left >= 0
                  THEN Attempts + 1 ELSE Attempts,
                  FirstMaxRetries)

RetryOnCell ==
    \E m \in BuildReplies(State) :
        RetryStep(on_cell(State, m, TheEnv, 0), "on_cell", Attempts, FirstMaxRetries)

NextRetry ==
    \/ RetryCreateCircuit
    \/ RetryFires
    \/ RetryTimeout
    \/ RetryOnCell

InitRetry == InitNode /\ become_exitnode = FALSE

SpecRetry == InitRetry /\ [][NextRetry]_vars

\* ------------------------------------------------------------ claim C39
\* a retry is registered: a delayed call or a cache that holds one
RetryScheduled ==
    \/ retry_tasks # <<>>
    \/ \E number \in DOMAIN request_cache.anon_circuit :
          request_cache.anon_circuit[number].retry_left >= 0

\* C39: a create_circuit call with max_retries = n leads to at most n + 1
\* calls of create_circuit in all, whatever fails and whatever times out; with
\* max_retries = 0 no retry is ever scheduled.
C39_AtMostNPlusOneAttempts ==
    Attempts > 0 =>
        /\ Attempts <= FirstMaxRetries + 1
        /\ FirstMaxRetries = 0 => ~RetryScheduled

\* the last retry of a call with max_retries = MaxRetries has been made, and
\* the chain has seen a cache time out
C39_Witness ==
    /\ last.op = "timeout"
    /\ FirstMaxRetries = MaxRetries
    /\ Attempts = MaxRetries + 1

\* ------------------------------------------------------------ claim C40
\* the public keys of the verified hops of a circuit, then that of the hop
\* whose handshake is pending
KeysOf(circuit) ==
    HopKeys(circuit.hops)
        \o (IF circuit.unverified_hop = None THEN <<>> ELSE <<circuit.unverified_hop>>)

\* C40: in every circuit the public keys of the verified hops and of the
\* pending unverified hop are pairwise distinct, and none is this node's own
\* public key.
C40_HopKeysDistinct ==
    \A c \in DOMAIN circuits :
        LET keys == KeysOf(circuits[c])
        IN /\ \A i, j \in 1..Len(keys) : i # j => keys[i] # keys[j]
           /\ \A i \in 1..Len(keys) : keys[i] # MyKey

\* an extend has just been sent to a peer that is already a hop of the
\* circuit
C40_Witness ==
    /\ last.op = "on_cell" /\ last.case \in {"created", "extended"}
    /\ \E c \in DOMAIN circuits :
          /\ circuits[c].unverified_hop # None
          /\ \E i \in 1..Len(circuits[c].hops) :
                circuits[c].hops[i].public_key = circuits[c].unverified_hop
====
